---- MODULE Spec2Model ----
(***************************************************************************)
(* Timetable scrapers of yorkuplan/core-api (src/scraping/scrapers) and    *)
(* the seed generator (src/scraping/scripts).                              *)
(*                                                                         *)
(* A Python str is a sequence of one-character strings.  The character     *)
(* U+00A0 (no-break space) is written NBSP.                                *)
(*                                                                         *)
(* The specifications share the variables of the module:                   *)
(*   Spec      parse_course_timetable_html walking one document            *)
(*   SpecRow   parse_course_header followed by direct calls of             *)
(*             parse_section_row(row_cells, course), as the unit tests do  *)
(*   SpecText  norm_text and html_to_text applied to a text, then to       *)
(*             their own output                                            *)
(*   SpecType  get_section_type applied to one raw token                   *)
(*   SpecHeader is_header_row and parse_course_header applied to one row   *)
(*   SpecDesc  add_descriptions_to_courses                                 *)
(*   SpecSeed  collect_courses_and_instructors                             *)
(*   SpecRun   main of scrape.py running the loaded scrapers               *)
(*   SpecMain  main of a per-faculty scraper                               *)
(*   SpecFill  the backfill by two activity rows in both orders, and by    *)
(*             one activity row twice                                      *)
(*   SpecMerge generate_seed_sql merging its input files                   *)
(***************************************************************************)
EXTENDS Integers, Sequences, FiniteSets, TLC

VARIABLES
    doc, extract_metadata, allow_alphanumeric_course_id, pc, header_rows, hi, pos,
    course, courses, metadata, result, prev_result, calls,
    rcourse, rrow, rret, rcalls, rprev,
    text, out_norm, out_html, applied,
    raw_token, normalized_type, classified,
    table_row, header_found, header_course, walk_step,
    desc_courses, descriptions, desc_done,
    seed_courses, courses_list, course_code_to_index, instructors_map, seed_done,
    scrapers, results, invocations, run_pc, exit_code,
    scraper, outcomes, main_pc, printed, parser_calls, files_written,
    fill_start, fill_rows, fill_ab, fill_ba, fill_once, fill_twice, fill_pc,
    json_files, files_done, all_courses_list, all_course_code_to_index, all_labs_list, all_tutorials_list, all_sections_list, course_files, origins

vars == <<doc, extract_metadata, allow_alphanumeric_course_id, pc, header_rows, hi, pos, course, courses,
          metadata, result, prev_result, calls,
          rcourse, rrow, rret, rcalls, rprev,
          text, out_norm, out_html, applied,
          raw_token, normalized_type, classified,
          table_row, header_found, header_course, walk_step,
          desc_courses, descriptions, desc_done,
          seed_courses, courses_list, course_code_to_index, instructors_map, seed_done,
          scrapers, results, invocations, run_pc, exit_code,
          scraper, outcomes, main_pc, printed, parser_calls, files_written,
          fill_start, fill_rows, fill_ab, fill_ba, fill_once, fill_twice, fill_pc,
          json_files, files_done, all_courses_list, all_course_code_to_index, all_labs_list, all_tutorials_list, all_sections_list, course_files, origins>>

walkVars == <<doc, extract_metadata, allow_alphanumeric_course_id, pc, header_rows, hi, pos, course, courses,
              metadata, result, prev_result, calls>>
rowVars == <<rcourse, rrow, rret, rcalls, rprev>>
textVars == <<text, out_norm, out_html, applied>>
typeVars == <<raw_token, normalized_type, classified>>
headerVars == <<table_row, header_found, header_course, walk_step>>
descVars == <<desc_courses, descriptions, desc_done>>
seedVars == <<seed_courses, courses_list, course_code_to_index, instructors_map, seed_done>>
runVars == <<scrapers, results, invocations, run_pc, exit_code>>
mainVars == <<scraper, outcomes, main_pc, printed, parser_calls, files_written>>
fillVars == <<fill_start, fill_rows, fill_ab, fill_ba, fill_once, fill_twice, fill_pc>>
mergeVars == <<json_files, files_done, all_courses_list, all_course_code_to_index, all_labs_list, all_tutorials_list, all_sections_list, course_files, origins>>

\* what a specification leaves alone: the variables of the other ones
besidesWalk == <<rowVars, textVars, typeVars, headerVars, descVars, seedVars, runVars, mainVars, fillVars, mergeVars>>
besidesRow == <<walkVars, textVars, typeVars, headerVars, descVars, seedVars, runVars, mainVars, fillVars, mergeVars>>
besidesText == <<walkVars, rowVars, typeVars, headerVars, descVars, seedVars, runVars, mainVars, fillVars, mergeVars>>
besidesType == <<walkVars, rowVars, textVars, headerVars, descVars, seedVars, runVars, mainVars, fillVars, mergeVars>>
besidesHeader == <<walkVars, rowVars, textVars, typeVars, descVars, seedVars, runVars, mainVars, fillVars, mergeVars>>
besidesDesc == <<rowVars, textVars, typeVars, headerVars, walkVars, seedVars, runVars, mainVars, fillVars, mergeVars>>
besidesSeed == <<rowVars, textVars, typeVars, headerVars, descVars, walkVars, runVars, mainVars, fillVars, mergeVars>>
besidesRun == <<rowVars, textVars, typeVars, headerVars, descVars, seedVars, walkVars, mainVars, fillVars, mergeVars>>
besidesMain == <<rowVars, textVars, typeVars, headerVars, descVars, seedVars, runVars, walkVars, fillVars, mergeVars>>
besidesFill == <<rowVars, textVars, typeVars, headerVars, descVars, seedVars, runVars, mainVars, walkVars, mergeVars>>
besidesMerge == <<rowVars, textVars, typeVars, headerVars, descVars, seedVars, runVars, mainVars, fillVars, walkVars>>

(***************************************************************************)
(* Characters                                                              *)
(***************************************************************************)
NBSP == "nbsp"

SpaceChars == {" ", "\n", "\t", NBSP}

IsSpace(c) == c \in SpaceChars

Digits == {"0", "1", "2", "3", "4", "5", "6", "7", "8", "9"}

IsDigit(c) == c \in Digits

UpperLetters ==
    {"A", "B", "C", "D", "E", "F", "G", "H", "I", "J", "K", "L", "M",
     "N", "O", "P", "Q", "R", "S", "T", "U", "V", "W", "X", "Y", "Z"}

LowerToUpper ==
    [c \in {"a", "b", "c", "d", "e", "f", "g", "h", "i", "j", "k", "l", "m",
            "n", "o", "p", "q", "r", "s", "t", "u", "v", "w", "x", "y", "z"} |->
        CASE c = "a" -> "A" [] c = "b" -> "B" [] c = "c" -> "C" [] c = "d" -> "D"
          [] c = "e" -> "E" [] c = "f" -> "F" [] c = "g" -> "G" [] c = "h" -> "H"
          [] c = "i" -> "I" [] c = "j" -> "J" [] c = "k" -> "K" [] c = "l" -> "L"
          [] c = "m" -> "M" [] c = "n" -> "N" [] c = "o" -> "O" [] c = "p" -> "P"
          [] c = "q" -> "Q" [] c = "r" -> "R" [] c = "s" -> "S" [] c = "t" -> "T"
          [] c = "u" -> "U" [] c = "v" -> "V" [] c = "w" -> "W" [] c = "x" -> "X"
          [] c = "y" -> "Y" [] c = "z" -> "Z"]

IsUpper(c) == c \in UpperLetters

IsLower(c) == c \in DOMAIN LowerToUpper

IsAlpha(c) == IsUpper(c) \/ IsLower(c)

ToUpper(c) == IF IsLower(c) THEN LowerToUpper[c] ELSE c

ToLower(c) == IF IsUpper(c) THEN CHOOSE l \in DOMAIN LowerToUpper : LowerToUpper[l] = c ELSE c

Upper(t) == [i \in 1..Len(t) |-> ToUpper(t[i])]

Lower(t) == [i \in 1..Len(t) |-> ToLower(t[i])]

Min(a, b) == IF a < b THEN a ELSE b

\* the least element of a non-empty set of integers
MinOf(S) == CHOOSE x \in S : \A y \in S : x <= y

\* the least k >= i with t[k] in cs; Len(t) + 1 when no character from i on is in cs
FirstIn(t, i, cs) ==
    IF i > Len(t) THEN Len(t) + 1
    ELSE CHOOSE k \in i..(Len(t) + 1) :
             /\ (IF k > Len(t) THEN TRUE ELSE t[k] \in cs)
             /\ \A m \in i..(k - 1) : t[m] \notin cs

\* the least k >= i with t[k] outside cs; Len(t) + 1 when there is none
FirstNotIn(t, i, cs) ==
    IF i > Len(t) THEN Len(t) + 1
    ELSE CHOOSE k \in i..(Len(t) + 1) :
             /\ (IF k > Len(t) THEN TRUE ELSE t[k] \notin cs)
             /\ \A m \in i..(k - 1) : t[m] \in cs

\* the greatest k <= Len(t) with t[k] outside cs; 0 when there is none
LastNotIn(t, cs) ==
    CHOOSE k \in 0..Len(t) :
        /\ (IF k = 0 THEN TRUE ELSE t[k] \notin cs)
        /\ \A m \in (k + 1)..Len(t) : t[m] \in cs

\* "".join(ss[a..b])
RECURSIVE ConcatRange(_, _, _)
ConcatRange(ss, a, b) ==
    IF a > b THEN <<>>
    ELSE IF a = b THEN ss[a]
    ELSE ConcatRange(ss, a, (a + b) \div 2) \o ConcatRange(ss, (a + b) \div 2 + 1, b)

Concat(ss) == ConcatRange(ss, 1, Len(ss))

\* t[i..] starts with p
StartsAt(t, i, p) == i + Len(p) - 1 <= Len(t) /\ SubSeq(t, i, i + Len(p) - 1) = p

\* Python's `p in t`
Contains(t, p) == \E i \in 1..(Len(t) + 1) : StartsAt(t, i, p)

(***************************************************************************)
(* html.unescape, restricted to the named references amp, lt, gt, nbsp     *)
(* (each with and without the closing semicolon, as in html.entities.html5)*)
(* Numeric references (&#...;) are outside the alphabet of the model.      *)
(***************************************************************************)
html5 ==
    (<<"a", "m", "p", ";">> :> "&") @@ (<<"a", "m", "p">> :> "&") @@
    (<<"l", "t", ";">> :> "<") @@ (<<"l", "t">> :> "<") @@
    (<<"g", "t", ";">> :> ">") @@ (<<"g", "t">> :> ">") @@
    (<<"n", "b", "s", "p", ";">> :> NBSP) @@ (<<"n", "b", "s", "p">> :> NBSP)

\* [^\t\n\f <&#;]
NonNameChars == {"\t", "\n", " ", "<", "&", "#", ";"}

IsNameChar(c) == c \notin NonNameChars

\* length of the run of name characters starting at i
NameRunLen(t, i) == FirstIn(t, i, NonNameChars) - i

\* _replace_charref for a named reference s (without the leading &)
RECURSIVE LongestPrefix(_, _)
LongestPrefix(s, x) ==
    IF x < 2 THEN <<"&">> \o s
    ELSE IF SubSeq(s, 1, x) \in DOMAIN html5
         THEN <<html5[SubSeq(s, 1, x)]>> \o SubSeq(s, x + 1, Len(s))
         ELSE LongestPrefix(s, x - 1)

replace_charref(s) ==
    IF s \in DOMAIN html5 THEN <<html5[s]>> ELSE LongestPrefix(s, Len(s) - 1)

\* what the charref pattern matches after the "&" at i: n name characters and
\* the ";" that follows them, if any
CharrefName(t, i, n) ==
    SubSeq(t, i + 1, i + n + (IF i + n + 1 <= Len(t) /\ t[i + n + 1] = ";" THEN 1 ELSE 0))

\* _charref.sub(_replace_charref, t[i..]); the scan goes from one "&" to the next
RECURSIVE UnescapeFrom(_, _)
UnescapeRef(t, i, s) == replace_charref(s) \o UnescapeFrom(t, i + 1 + Len(s))

UnescapeAmp(t, k) ==
    IF k > Len(t) THEN <<>>
    ELSE IF NameRunLen(t, k + 1) > 0
         THEN UnescapeRef(t, k, CharrefName(t, k, Min(NameRunLen(t, k + 1), 32)))
         ELSE <<t[k]>> \o UnescapeFrom(t, k + 1)

UnescapeTo(t, i, k) == SubSeq(t, i, k - 1) \o UnescapeAmp(t, k)

UnescapeFrom(t, i) == UnescapeTo(t, i, FirstIn(t, i, {"&"}))

unescape(t) == UnescapeFrom(t, 1)

\* the opposite direction, as the "minimal" output formatter of BeautifulSoup
\* writes text back into markup (Tag.decode_contents)
escape_minimal(t) ==
    Concat([i \in 1..Len(t) |->
               CASE t[i] = "&" -> <<"&", "a", "m", "p", ";">>
                 [] t[i] = "<" -> <<"&", "l", "t", ";">>
                 [] t[i] = ">" -> <<"&", "g", "t", ";">>
                 [] OTHER -> <<t[i]>>])

(***************************************************************************)
(* re.sub(r"\s+", " ", text) and str.strip()                               *)
(***************************************************************************)
\* every run of whitespace gives one space, at the place of its first character
collapse_ws(t) ==
    Concat([i \in 1..Len(t) |->
               IF IsSpace(t[i])
               THEN IF i > 1 /\ IsSpace(t[i - 1]) THEN <<>> ELSE <<" ">>
               ELSE <<t[i]>>])

LStrip(t, cs) == SubSeq(t, FirstNotIn(t, 1, cs), Len(t))

RStrip(t, cs) == SubSeq(t, 1, LastNotIn(t, cs))

StripChars(t, cs) == RStrip(LStrip(t, cs), cs)

strip(t) == StripChars(t, SpaceChars)

(***************************************************************************)
(* text_utils.norm_text                                                    *)
(***************************************************************************)
\* norm_text with html.escape called in the place of html.unescape
norm_text_escaping(t) == strip(collapse_ws(escape_minimal(t)))

norm_text(t) == strip(collapse_ws(unescape(t)))

(***************************************************************************)
(* text_utils.html_to_text                                                 *)
(***************************************************************************)
\* length of the run of whitespace starting at i
SpaceRunLen(t, i) == FirstNotIn(t, i, SpaceChars) - i

\* length of a match of <br\s*/?> (IGNORECASE) at i, or 0
BrMatchLen(t, i) ==
    IF i + 2 <= Len(t) /\ t[i] = "<" /\ ToUpper(t[i + 1]) = "B" /\ ToUpper(t[i + 2]) = "R"
    THEN LET w == SpaceRunLen(t, i + 3)
             j == i + 3 + w
         IN  IF j + 1 <= Len(t) /\ t[j] = "/" /\ t[j + 1] = ">" THEN j + 2 - i
             ELSE IF j <= Len(t) /\ t[j] = ">" THEN j + 1 - i
             ELSE 0
    ELSE 0

\* re.sub(r"<br\s*/?>", sep, t[i..], flags=re.IGNORECASE); the scan goes from
\* one "<" to the next
RECURSIVE SubBrFrom(_, _, _)
SubBrLt(t, k, sep, n) ==
    IF k > Len(t) THEN <<>>
    ELSE IF n > 0 THEN sep \o SubBrFrom(t, k + n, sep)
    ELSE <<t[k]>> \o SubBrFrom(t, k + 1, sep)

SubBrTo(t, i, sep, k) == SubSeq(t, i, k - 1) \o SubBrLt(t, k, sep, BrMatchLen(t, k))

SubBrFrom(t, i, sep) == SubBrTo(t, i, sep, FirstIn(t, i, {"<"}))

\* index of the first ">" at or after i, Len(t) + 1 when there is none
FindGt(t, i) == FirstIn(t, i, {">"})

\* re.sub(r"<[^>]+>", " ", t[i..]); g is the first ">" after the "<" at k
RECURSIVE SubTagsFrom(_, _)
SubTagsLt(t, k, g) ==
    IF k > Len(t) THEN <<>>
    ELSE IF g <= Len(t) /\ g > k + 1 THEN <<" ">> \o SubTagsFrom(t, g + 1)
    ELSE <<t[k]>> \o SubTagsFrom(t, k + 1)

SubTagsTo(t, i, k) == SubSeq(t, i, k - 1) \o SubTagsLt(t, k, FindGt(t, k + 1))

SubTagsFrom(t, i) == SubTagsTo(t, i, FirstIn(t, i, {"<"}))

html_to_text(t, br_separator) ==
    IF t = <<>> THEN <<>>
    ELSE strip(collapse_ws(SubTagsFrom(SubBrFrom(unescape(t), 1, br_separator), 1)))

(***************************************************************************)
(* The markup tree, as BeautifulSoup hands it to the parser.               *)
(*                                                                         *)
(* A cell (td) is a record                                                 *)
(*   cls      its class attribute ("bodytext" or "")                       *)
(*   colspan  whether it has a colspan attribute                           *)
(*   own      the text directly inside it (one string of the tree)         *)
(*   hasTable whether a table lies inside it                               *)
(*   table    that table's rows, each the sequence of its td texts         *)
(*   kids     its direct child td cells, each the sequence of the texts    *)
(*            it holds, a line break (br) between one and the next         *)
(* A row (tr) is the sequence of its direct child td cells.                *)
(***************************************************************************)
plain(t) == [cls |-> "", colspan |-> FALSE, own |-> t, hasTable |-> FALSE,
             table |-> <<>>, kids |-> <<>>]

head_cell(t, span) == [cls |-> "bodytext", colspan |-> span, own |-> t,
                       hasTable |-> FALSE, table |-> <<>>, kids |-> <<>>]

RECURSIVE FlattenRows(_)
FlattenRows(rows) == IF rows = <<>> THEN <<>> ELSE Head(rows) \o FlattenRows(Tail(rows))

\* the strings of the tree below a cell, in document order
cell_strings(cell) ==
    <<cell.own>> \o FlattenRows(cell.table) \o FlattenRows(cell.kids)

RECURSIVE JoinStripped(_)
JoinStripped(ss) ==
    IF ss = <<>> THEN <<>>
    ELSE LET h == strip(Head(ss))
             r == JoinStripped(Tail(ss))
         IN  IF h = <<>> THEN r
             ELSE IF r = <<>> THEN h
             ELSE h \o <<" ">> \o r

\* Tag.get_text(" ", strip=True)
get_text(ss) == JoinStripped(ss)

ReplaceNbsp(t) == [i \in 1..Len(t) |-> IF t[i] = NBSP THEN " " ELSE t[i]]

\* html_parsing.cell_text of the element whose strings are ss
text_of(ss) == norm_text(ReplaceNbsp(get_text(ss)))

\* the text of the cell itself, without the markup nested in it
cell_text_own(cell) == text_of(<<cell.own>>)

cell_text(cell) == text_of(cell_strings(cell))

(***************************************************************************)
(* Activity-type classifier (helpers/section_types.py)                     *)
(***************************************************************************)
SECTION_TYPE_MAPPINGS ==
    <<
     <<<<"L", "E", "C", "T">>, <<"L", "E", "C", "T">>>>,
     <<<<"L", "E", "C">>, <<"L", "E", "C", "T">>>>,
     <<<<"L", "A", "B">>, <<"L", "A", "B">>>>,
     <<<<"T", "U", "T", "R">>, <<"T", "U", "T", "R">>>>,
     <<<<"T", "U", "T">>, <<"T", "U", "T", "R">>>>,
     <<<<"S", "E", "M", "R">>, <<"S", "E", "M", "R">>>>,
     <<<<"S", "E", "M", "I", "N", "A", "R">>, <<"S", "E", "M", "R">>>>,
     <<<<"S", "E", "M">>, <<"S", "E", "M", "R">>>>,
     <<<<"S", "T", "D", "O">>, <<"S", "T", "D", "O">>>>,
     <<<<"S", "T", "U", "D", "I", "O">>, <<"S", "T", "D", "O">>>>,
     <<<<"B", "L", "E", "N">>, <<"B", "L", "E", "N">>>>,
     <<<<"B", "L", "E", "N", "D", "E", "D">>, <<"B", "L", "E", "N">>>>,
     <<<<"O", "N", "L", "N">>, <<"O", "N", "L", "N">>>>,
     <<<<"O", "N", "L", "I", "N", "E">>, <<"O", "N", "L", "N">>>>,
     <<<<"O", "N", "L">>, <<"O", "N", "L", "N">>>>,
     <<<<"O", "N", "C", "A">>, <<"O", "N", "C", "A">>>>,
     <<<<"C", "O", "O", "P">>, <<"C", "O", "O", "P">>>>,
     <<<<"I", "S", "T", "Y">>, <<"I", "S", "T", "Y">>>>,
     <<<<"I", "N", "D", "E", "P", "E", "N", "D", "E", "N", "T", "S", "T", "U", "D", "Y">>, <<"I", "S", "T", "Y">>>>,
     <<<<"I", "N", "D", "S", "T", "U", "D", "Y">>, <<"I", "S", "T", "Y">>>>,
     <<<<"I", "D", "S">>, <<"I", "D", "S">>>>,
     <<<<"I", "N", "D", "I", "V", "I", "D", "U", "A", "L", "D", "I", "R", "E", "C", "T", "E", "D", "S", "T", "U", "D", "Y">>, <<"I", "D", "S">>>>,
     <<<<"D", "I", "R", "D">>, <<"D", "I", "R", "D">>>>,
     <<<<"D", "I", "R", "E", "C", "T", "E", "D", "S", "T", "U", "D", "Y">>, <<"D", "I", "R", "D">>>>,
     <<<<"F", "D", "E", "X">>, <<"F", "D", "E", "X">>>>,
     <<<<"F", "I", "E", "L", "D", "E", "X", "E", "R", "C", "I", "S", "E">>, <<"F", "D", "E", "X">>>>,
     <<<<"F", "I", "E", "L">>, <<"F", "I", "E", "L">>>>,
     <<<<"I", "N", "S", "P">>, <<"I", "N", "S", "P">>>>,
     <<<<"I", "N", "T", "E", "R", "N", "S", "H", "I", "P">>, <<"I", "N", "S", "P">>>>,
     <<<<"C", "O", "R", "S">>, <<"C", "O", "R", "S">>>>,
     <<<<"C", "O", "R", "R", "E", "S", "P", "O", "N", "D", "E", "N", "C", "E">>, <<"C", "O", "R", "S">>>>,
     <<<<"R", "E", "E", "V">>, <<"R", "E", "E", "V">>>>,
     <<<<"R", "E", "S", "E", "A", "R", "C", "H", "E", "V", "A", "L", "U", "A", "T", "I", "O", "N">>, <<"R", "E", "E", "V">>>>,
     <<<<"R", "E", "S", "P">>, <<"R", "E", "S", "P">>>>,
     <<<<"R", "E", "S", "E", "A", "R", "C", "H">>, <<"R", "E", "S", "P">>>>,
     <<<<"R", "E", "V", "P">>, <<"R", "E", "V", "P">>>>,
     <<<<"R", "E", "V", "I", "E", "W", "P", "A", "P", "E", "R">>, <<"R", "E", "V", "P">>>>,
     <<<<"R", "E", "M", "T">>, <<"R", "E", "M", "T">>>>,
     <<<<"R", "E", "M", "O", "T", "E">>, <<"R", "E", "M", "T">>>>,
     <<<<"T", "H", "E", "S">>, <<"T", "H", "E", "S">>>>,
     <<<<"W", "K", "S", "P">>, <<"W", "K", "S", "P">>>>,
     <<<<"W", "O", "R", "K", "S", "H", "O", "P">>, <<"W", "K", "S", "P">>>>,
     <<<<"W", "R", "K", "S">>, <<"W", "R", "K", "S">>>>,
     <<<<"W", "R", "K">>, <<"W", "R", "K", "S">>>>,
     <<<<"P", "R", "A", "C">>, <<"P", "R", "A", "C">>>>,
     <<<<"P", "R", "A">>, <<"P", "R", "A", "C">>>>,
     <<<<"C", "L", "I", "N">>, <<"C", "L", "I", "N">>>>,
     <<<<"H", "Y", "F", "X">>, <<"H", "Y", "F", "X">>>>,
     <<<<"H", "Y", "B", "R", "I", "D", "F", "L", "E", "X">>, <<"H", "Y", "F", "X">>>>,
     <<<<"D", "I", "S", "S">>, <<"D", "I", "S", "S">>>>,
     <<<<"L", "G", "C", "L">>, <<"L", "G", "C", "L">>>>,
     <<<<"L", "A", "N", "G", "U", "A", "G", "E", "C", "L", "A", "S", "S", "E", "S">>, <<"L", "G", "C", "L">>>>,
     <<<<"P", "E", "R", "F">>, <<"P", "E", "R", "F">>>>
    >>

KeepLetters(t) == SelectSeq(t, IsUpper)

\* the first pattern that occurs is returned as it stands
FirstMatch_pattern(hits) ==
    IF hits = {} THEN <<>> ELSE SECTION_TYPE_MAPPINGS[MinOf(hits)][1]

\* the last pattern that occurs decides
FirstMatch_last(hits) ==
    IF hits = {} THEN <<>>
    ELSE SECTION_TYPE_MAPPINGS[CHOOSE k \in hits : \A j \in hits : j <= k][2]

\* hits: the indexes of the patterns that occur in the text; the first one decides
FirstMatch(hits) ==
    IF hits = {} THEN <<>> ELSE SECTION_TYPE_MAPPINGS[MinOf(hits)][2]

MatchingPatterns(compact_text) ==
    {k \in 1..Len(SECTION_TYPE_MAPPINGS) : Contains(compact_text, SECTION_TYPE_MAPPINGS[k][1])}

get_section_type_helper(t) ==
    FirstMatch(MatchingPatterns(KeepLetters(Upper(norm_text(t)))))

get_section_type(t) == get_section_type_helper(t)

(***************************************************************************)
(* course_parsing: header rows                                             *)
(***************************************************************************)
bodytext_cells(row) == SelectSeq(row, LAMBDA c : c.cls = "bodytext")

\* find_all("td", recursive=False) without the class filter
is_header_row_unstyled(row) == Len(row) >= 4 /\ row[4].colspan

is_header_row(row) ==
    LET cells == bodytext_cells(row)
    IN  Len(cells) >= 4 /\ cells[4].colspan

parse_course_header(header_row) ==
    LET cells == bodytext_cells(header_row)
    IN  [faculty |-> cell_text(cells[1]),
         department |-> cell_text(cells[2]),
         term |-> cell_text(cells[3]),
         courseTitle |-> cell_text(cells[4]),
         courseId |-> <<>>,
         credits |-> <<>>,
         languageOfInstruction |-> <<>>,
         sections |-> <<>>]

(***************************************************************************)
(* course_parsing: activity rows.  Cell indexes are 1-based here;          *)
(* index 0 stands for Python's None.                                       *)
(***************************************************************************)
RECURSIVE FirstTypeFrom(_, _)
FirstTypeFrom(row_cells, i) ==
    IF i > Len(row_cells) THEN 0
    ELSE IF get_section_type(cell_text(row_cells[i])) # <<>> THEN i
    ELSE FirstTypeFrom(row_cells, i + 1)

find_section_type_index(row_cells) == FirstTypeFrom(row_cells, 1)

DigitRunLen(t, i) == FirstNotIn(t, i, Digits) - i

\* A match of (\d{3,4}[A-Z]?)\s+([0-9]+\.[0-9]{2})\s*([A-Z0-9]?) starting at i:
\* <<group 1, group 2, group 3>>, or <<>> when the pattern does not match there.
\* No part of the pattern has a second way to match, so each quantifier takes
\* the longest run: a is where group 1 ends, b where group 2 starts, d the dot,
\* f where group 3 starts.
SummaryGroups(t, i, a, b, d, f) ==
    <<SubSeq(t, i, a - 1), SubSeq(t, b, d + 2),
      IF f <= Len(t) /\ (IsUpper(t[f]) \/ IsDigit(t[f])) THEN <<t[f]>> ELSE <<>>>>

SummaryCredits(t, i, a, b, d) ==
    IF d > b /\ d + 2 <= Len(t) /\ t[d] = "." /\ IsDigit(t[d + 1]) /\ IsDigit(t[d + 2])
    THEN SummaryGroups(t, i, a, b, d, d + 3 + SpaceRunLen(t, d + 3))
    ELSE <<>>

SummarySpace(t, i, a, b) ==
    IF b > a THEN SummaryCredits(t, i, a, b, b + DigitRunLen(t, b)) ELSE <<>>

SummaryLetter(t, i, a) ==
    SummarySpace(t, i, a, a + SpaceRunLen(t, a))

SummaryDigits(t, i, n) ==
    IF n >= 3
    THEN SummaryLetter(t, i, IF i + n <= Len(t) /\ IsUpper(t[i + n]) THEN i + n + 1 ELSE i + n)
    ELSE <<>>

SummaryMatchAt(t, i) == SummaryDigits(t, i, Min(DigitRunLen(t, i), 4))

\* starts: the positions where the pattern matches; search takes the leftmost
SummaryLeftmost(t, starts) ==
    IF starts = {} THEN <<>> ELSE SummaryMatchAt(t, MinOf(starts))

\* summary_pattern.search(text)
summary_search(t) ==
    SummaryLeftmost(t, {i \in 1..Len(t) : IsDigit(t[i]) /\ SummaryMatchAt(t, i) # <<>>})

\* the first match scanning the cells j, j-1, ..., 1
RECURSIVE SummaryScan(_, _)
SummaryOrLeft(m, row_cells, j) == IF m # <<>> THEN m ELSE SummaryScan(row_cells, j - 1)

SummaryScan(row_cells, j) ==
    IF j < 1 THEN <<>>
    ELSE SummaryOrLeft(summary_search(cell_text(row_cells[j])), row_cells, j)

is_loi_token(token) ==
    /\ 1 < Len(token)
    /\ Len(token) <= 3
    /\ \A i \in 1..Len(token) : IsUpper(token[i])

RECURSIVE LoiScan(_, _)
LoiOrLeft(token, row_cells, j) ==
    IF is_loi_token(token) THEN token ELSE LoiScan(row_cells, j - 1)

LoiScan(row_cells, j) ==
    IF j < 1 THEN <<>> ELSE LoiOrLeft(cell_text(row_cells[j]), row_cells, j)

\* lines 58-64 without the two "if not course.get(...)" guards
set_summary_overwriting(c, m) ==
    IF m = <<>> THEN c ELSE [c EXCEPT !.courseId = m[1], !.credits = m[2]]

\* lines 58-64 without lines 61-62: the credits of the match are dropped
set_summary_id_only(c, m) ==
    IF m = <<>> THEN c
    ELSE [c EXCEPT !.courseId = IF @ = <<>> THEN m[1] ELSE @]

\* lines 58-64: m is the match, <<>> when no cell matched
set_summary(c, m) ==
    IF m = <<>> THEN c
    ELSE [c EXCEPT !.courseId = IF @ = <<>> THEN m[1] ELSE @,
                   !.credits = IF @ = <<>> THEN m[2] ELSE @]

\* lines 66-71 without the guard of line 66
set_loi_overwriting(c, loi) ==
    IF loi # <<>> THEN [c EXCEPT !.languageOfInstruction = loi] ELSE c

\* lines 66-71: loi is the first language token, <<>> when no cell carries one
set_loi(c, loi) ==
    IF c.languageOfInstruction = <<>> /\ loi # <<>>
    THEN [c EXCEPT !.languageOfInstruction = loi] ELSE c

\* the section letter read inside the guard of line 59: returned only when the
\* call sets the courseId
fill_result_letter_when_set(c, m, loi) ==
    [course |-> set_loi(set_summary(c, m), loi),
     letter |-> IF m # <<>> /\ c.courseId = <<>> THEN m[3] ELSE <<>>]

fill_result(c, m, loi) ==
    [course |-> set_loi(set_summary(c, m), loi),
     letter |-> IF m # <<>> THEN m[3] ELSE <<>>]

\* [course |-> the course after the call, letter |-> the returned section letter]
fill_course_summary_and_loi(row_cells, section_type_index, c) ==
    fill_result(c, SummaryScan(row_cells, section_type_index - 1),
                LoiScan(row_cells, section_type_index - 1))

(***************************************************************************)
(* Tag.decode_contents(): the markup inside a cell, text escaped by the    *)
(* "minimal" formatter, a line break between the pieces of a child cell.   *)
(***************************************************************************)
RECURSIVE kid_html(_)
kid_html(pieces) ==
    IF pieces = <<>> THEN <<>>
    ELSE escape_minimal(Head(pieces))
         \o (IF Len(pieces) > 1 THEN <<"<", "b", "r", "/", ">">> ELSE <<>>)
         \o kid_html(Tail(pieces))

TdOpen == <<"<", "t", "d", ">">>

TdClose == <<"<", "/", "t", "d", ">">>

table_row_html(r) ==
    <<"<", "t", "r", ">">>
        \o Concat([i \in 1..Len(r) |-> TdOpen \o escape_minimal(r[i]) \o TdClose])
        \o <<"<", "/", "t", "r", ">">>

table_html(rows) ==
    <<"<", "t", "a", "b", "l", "e", ">">>
        \o Concat([i \in 1..Len(rows) |-> table_row_html(rows[i])])
        \o <<"<", "/", "t", "a", "b", "l", "e", ">">>

decode_contents(cell) ==
    escape_minimal(cell.own)
        \o (IF cell.hasTable THEN table_html(cell.table) ELSE <<>>)
        \o Concat([i \in 1..Len(cell.kids) |-> TdOpen \o kid_html(cell.kids[i]) \o TdClose])

(***************************************************************************)
(* instructor_notes                                                        *)
(***************************************************************************)
\* re.split(r"[|,;&]", text)
RECURSIVE SplitFrom(_, _)
SplitTo(t, i, k) ==
    <<SubSeq(t, i, k - 1)>> \o (IF k > Len(t) THEN <<>> ELSE SplitFrom(t, k + 1))

SplitFrom(t, i) == SplitTo(t, i, FirstIn(t, i, {"|", ",", ";", "&"}))

ArtifactNames ==
    {<<"n", "b", "s", "p">>, <<"a", "m", "p">>, <<"l", "t">>, <<"g", "t">>}

parse_instructors(instructor_html) ==
    IF instructor_html = <<>> THEN <<>>
    ELSE LET parts == SplitFrom(html_to_text(instructor_html, <<"|">>), 1)
             names == [i \in 1..Len(parts) |-> norm_text(parts[i])]
         IN  SelectSeq(names, LAMBDA n : n # <<>> /\ Lower(n) \notin ArtifactNames)

parse_notes(notes_html) ==
    IF notes_html = <<>> THEN <<>>
    ELSE StripChars(html_to_text(notes_html, <<" ", "|", " ">>), {" ", "|"})

(***************************************************************************)
(* room_utils, course_parsing: the section detail builder                  *)
(***************************************************************************)
clean_room(room_text) == norm_text(room_text)

\* schedule_cells: the td texts of one row of the nested schedule table
parse_schedule_entry(schedule_cells) ==
    [day |-> text_of(<<schedule_cells[1]>>),
     time |-> text_of(<<schedule_cells[2]>>),
     duration |-> text_of(<<schedule_cells[3]>>),
     campus |-> text_of(<<schedule_cells[4]>>),
     room |-> clean_room(text_of(<<schedule_cells[5]>>))]

entry_has_value(e) ==
    e.day # <<>> \/ e.time # <<>> \/ e.duration # <<>> \/ e.campus # <<>> \/ e.room # <<>>

Cancelled == <<"c", "a", "n", "c", "e", "l", "l", "e", "d">>

\* lines 102-106 without the test of line 105: every row of at least 5 cells
\* gives an entry
table_schedule_unfiltered(rows) ==
    [i \in 1..Len(SelectSeq(rows, LAMBDA r : Len(r) >= 5)) |->
        parse_schedule_entry(SelectSeq(rows, LAMBDA r : Len(r) >= 5)[i])]

RECURSIVE table_schedule(_)
table_schedule(rows) ==
    IF rows = <<>> THEN <<>>
    ELSE (IF Len(Head(rows)) >= 5 /\ entry_has_value(parse_schedule_entry(Head(rows)))
          THEN <<parse_schedule_entry(Head(rows))>> ELSE <<>>)
         \o table_schedule(Tail(rows))

\* line 108 without the comparison with "cancelled"
flat_schedule_any_text(schedule_text) ==
    IF schedule_text # <<>>
    THEN <<[day |-> <<>>, time |-> schedule_text, duration |-> <<>>,
            campus |-> <<>>, room |-> <<>>]>>
    ELSE <<>>

flat_schedule(schedule_text) ==
    IF schedule_text # <<>> /\ Lower(schedule_text) # Cancelled
    THEN <<[day |-> <<>>, time |-> schedule_text, duration |-> <<>>,
            campus |-> <<>>, room |-> <<>>]>>
    ELSE <<>>

\* build_details reading the instructors from the whole schedule cell instead
\* of its first direct child cell (line 115)
build_details_whole_cell(row_cells, section_type_index) ==
    LET hasCatalog == Len(row_cells) >= section_type_index + 2
        hasSchedule == Len(row_cells) >= section_type_index + 3
        schedule_cell == row_cells[section_type_index + 3]
        catalog_number == IF hasCatalog THEN cell_text(row_cells[section_type_index + 2])
                          ELSE <<>>
    IN  [schedule |-> IF ~hasSchedule THEN <<>>
                      ELSE IF schedule_cell.hasTable THEN table_schedule(schedule_cell.table)
                      ELSE flat_schedule(cell_text(schedule_cell)),
         instructors |-> IF hasSchedule
                         THEN parse_instructors(decode_contents(schedule_cell)) ELSE <<>>,
         notes |-> IF hasSchedule /\ Len(schedule_cell.kids) >= 2
                   THEN parse_notes(kid_html(schedule_cell.kids[2])) ELSE <<>>,
         catalog_number |-> catalog_number,
         is_cancelled |-> Lower(catalog_number) = Cancelled]

build_details(row_cells, section_type_index) ==
    LET hasCatalog == Len(row_cells) >= section_type_index + 2
        hasSchedule == Len(row_cells) >= section_type_index + 3
        schedule_cell == row_cells[section_type_index + 3]
        catalog_number == IF hasCatalog THEN cell_text(row_cells[section_type_index + 2])
                          ELSE <<>>
    IN  [schedule |-> IF ~hasSchedule THEN <<>>
                      ELSE IF schedule_cell.hasTable THEN table_schedule(schedule_cell.table)
                      ELSE flat_schedule(cell_text(schedule_cell)),
         instructors |-> IF hasSchedule /\ Len(schedule_cell.kids) >= 1
                         THEN parse_instructors(kid_html(schedule_cell.kids[1])) ELSE <<>>,
         notes |-> IF hasSchedule /\ Len(schedule_cell.kids) >= 2
                   THEN parse_notes(kid_html(schedule_cell.kids[2])) ELSE <<>>,
         catalog_number |-> catalog_number,
         is_cancelled |-> Lower(catalog_number) = Cancelled]

RECURSIVE CancelledNotesFrom(_, _, _, _)
CancelledNotesFrom(row_cells, section_type_index, offset, notes) ==
    IF offset > 5 THEN notes
    ELSE LET potential_notes ==
                 IF Len(row_cells) >= section_type_index + offset
                 THEN parse_notes(decode_contents(row_cells[section_type_index + offset]))
                 ELSE <<>>
         IN  IF potential_notes # <<>> /\ strip(potential_notes) # <<>>
             THEN potential_notes
             ELSE CancelledNotesFrom(row_cells, section_type_index, offset + 1, notes)

\* the loop of line 123 going through the offsets as [5, 4]
maybe_extract_cancelled_notes_five_first(row_cells, section_type_index, notes) ==
    IF CancelledNotesFrom(row_cells, section_type_index, 5, notes) # notes
    THEN CancelledNotesFrom(row_cells, section_type_index, 5, notes)
    ELSE CancelledNotesFrom(row_cells, section_type_index, 4, notes)

maybe_extract_cancelled_notes(row_cells, section_type_index, notes) ==
    CancelledNotesFrom(row_cells, section_type_index, 4, notes)

\* make_section_detail leaving the type out of the record
make_section_detail_untyped(row_cells, section_type_index, section_type, section_letter, catalog_number, schedule, instructors, notes) ==
    LET meet == IF Len(row_cells) >= section_type_index + 1
                THEN cell_text(row_cells[section_type_index + 1]) ELSE <<>>
    IN  IF section_letter # <<>>
        THEN [type |-> <<>>, meetNumber |-> meet, section |-> section_letter,
              catalogNumber |-> catalog_number, schedule |-> schedule,
              instructors |-> instructors, notes |-> notes]
        ELSE [type |-> <<>>, meetNumber |-> meet,
              catalogNumber |-> catalog_number, schedule |-> schedule,
              instructors |-> instructors, notes |-> notes]

make_section_detail(row_cells, section_type_index, section_type, section_letter, catalog_number, schedule, instructors, notes) ==
    LET meet == IF Len(row_cells) >= section_type_index + 1
                THEN cell_text(row_cells[section_type_index + 1]) ELSE <<>>
    IN  IF section_letter # <<>>
        THEN [type |-> section_type, meetNumber |-> meet, section |-> section_letter,
              catalogNumber |-> catalog_number, schedule |-> schedule,
              instructors |-> instructors, notes |-> notes]
        ELSE [type |-> section_type, meetNumber |-> meet,
              catalogNumber |-> catalog_number, schedule |-> schedule,
              instructors |-> instructors, notes |-> notes]

\* lines 171-178 without bool(section_type)
has_content_without_type(section_type, section_detail) ==
    \/ section_detail.meetNumber # <<>>
    \/ section_detail.catalogNumber # <<>>
    \/ section_detail.schedule # <<>>
    \/ section_detail.instructors # <<>>
    \/ section_detail.notes # <<>>

has_content(section_type, section_detail) ==
    \/ section_type # <<>>
    \/ section_detail.meetNumber # <<>>
    \/ section_detail.catalogNumber # <<>>
    \/ section_detail.schedule # <<>>
    \/ section_detail.instructors # <<>>
    \/ section_detail.notes # <<>>

\* line 167
cancelled_notes(row_cells, section_type_index, d) ==
    IF d.is_cancelled /\ d.notes = <<>>
    THEN maybe_extract_cancelled_notes(row_cells, section_type_index, d.notes)
    ELSE d.notes

\* lines 171-181: <<>> stands for None
retain(section_type, section_detail) ==
    IF has_content(section_type, section_detail) THEN <<section_detail>> ELSE <<>>

\* lines 164-181, d being what build_details returned
section_of(row_cells, section_type_index, section_type, section_letter, d) ==
    retain(section_type,
           make_section_detail(row_cells, section_type_index, section_type, section_letter,
                               d.catalog_number, d.schedule, d.instructors,
                               cancelled_notes(row_cells, section_type_index, d)))

\* lines 158-181, filled being what fill_course_summary_and_loi did
parse_typed_row(row_cells, section_type_index, filled) ==
    [ret |-> section_of(row_cells, section_type_index,
                        get_section_type(cell_text(row_cells[section_type_index])),
                        filled.letter, build_details(row_cells, section_type_index)),
     course |-> filled.course]

\* parse_section_row running step 2 before the return of line 155: a row
\* without an activity type is scanned over all its cells
parse_row_at_scanning_first(row_cells, c, section_type_index) ==
    IF section_type_index = 0
    THEN [ret |-> <<>>,
          course |-> fill_course_summary_and_loi(row_cells, Len(row_cells) + 1, c).course]
    ELSE parse_typed_row(row_cells, section_type_index,
                         fill_course_summary_and_loi(row_cells, section_type_index, c))

parse_row_at(row_cells, c, section_type_index) ==
    IF section_type_index = 0 THEN [ret |-> <<>>, course |-> c]
    ELSE parse_typed_row(row_cells, section_type_index,
                         fill_course_summary_and_loi(row_cells, section_type_index, c))

\* [ret |-> what the call returns, <<>> for None and <<section_detail>> otherwise;
\*  course |-> the course dictionary after the call]
parse_section_row(row_cells, c) ==
    parse_row_at(row_cells, c, find_section_type_index(row_cells))

(***************************************************************************)
(* Bounds                                                                  *)
(***************************************************************************)
\* number of elements inside the first table of a document
MaxBody == 3

\* number of parse_section_row calls on one course in SpecRow
MaxCalls == 2

\* number of tokens of an input text in SpecText
MaxTokens == 3

(***************************************************************************)
(* parse_course_timetable_html (helpers/parser.py)                         *)
(*                                                                         *)
(* A document is [paras, pre, hasTable, body, post]: the p elements the    *)
(* metadata scan reads, then, in depth-first document order, the elements  *)
(* before the first table, that table's descendants and the elements after *)
(* it.  An element is [tag, name, row]: tag is FALSE for a text node, row  *)
(* holds the direct td cells of a tr.  The td cells themselves and other   *)
(* markup are elements whose name is not "tr"; Div stands for them.        *)
(***************************************************************************)
TextNode == [tag |-> FALSE, name |-> "", row |-> <<>>]

Div == [tag |-> TRUE, name |-> "div", row |-> <<>>]

TableTag == [tag |-> TRUE, name |-> "table", row |-> <<>>]

Tr(cells) == [tag |-> TRUE, name |-> "tr", row |-> cells]

HeaderRowOne ==
    Tr(<<head_cell(<<"G", "S">>, FALSE), head_cell(<<"E", "D", "U", "C">>, FALSE),
         head_cell(<<"F", "W", "2", "5">>, FALSE), head_cell(<<"C", "o", "u", "r", "s", "e", " ", "O", "n", "e">>, TRUE)>>)

HeaderRowTwo ==
    Tr(<<head_cell(<<"G", "S">>, FALSE), head_cell(<<"E", "D", "U", "C">>, FALSE),
         head_cell(<<"F", "W", "2", "5">>, FALSE), head_cell(<<" ", "C", "o", "u", "r", "s", "e", " ", " ", "T", "w", "o">>, TRUE)>>)

LectRow ==
    Tr(<<plain(<<"5", "0", "0", "1", " ", "3", ".", "0", "0", " ", "A">>), plain(<<"E", "N">>), plain(<<"L", "E", "C">>),
         plain(<<"0", "1">>), plain(<<"A", "0", "1">>), plain(<<"T", "B", "A">>)>>)

NoTypeRow == Tr(<<plain(<<"1", "0", "0", "3", " ", "3", ".", "0", "0", " ", "D">>), plain(<<"E", "N">>), plain(<<"0", "4">>)>>)

\* the row of test_fill_course_summary_and_loi_alphanumeric_course_id
AlphanumericRow ==
    Tr(<<plain(<<"4", "8", "0", "0", "Q", " ", "3", ".", "0", "0", " ", "A">>), plain(<<"E", "N">>), plain(<<"S", "E", "M", "R">>)>>)

\* an activity row whose schedule cell holds a nested table; the cells of the
\* nested rows read like those of an activity row
NestedTableRow ==
    Tr(<<plain(<<"5", "0", "0", "1", " ", "3", ".", "0", "0", " ", "A">>), plain(<<"E", "N">>), plain(<<"L", "E", "C">>), plain(<<"0", "1">>), plain(<<"A", "0", "1">>),
         [cls |-> "", colspan |-> FALSE, own |-> <<>>, hasTable |-> TRUE,
          table |-> <<<<<<"T", "u", "e">>, <<"9", ":", "0", "0">>, <<"1", "h">>, <<"K", "E", "E", "L", "E">>, <<"L", "A", "B">>>>,
                      <<<<"9", "9", "9", "9", " ", "4", ".", "0", "0", " ", "Z">>, <<"F", "R">>, <<"T", "U", "T">>>>>>,
          kids |-> <<<<<<"P", "r", "o", "f", " ", "O", "n", "e">>>>>>]>>)

ElemSamples ==
    {TextNode, Div, Tr(<<>>), HeaderRowOne, HeaderRowTwo, LectRow, NoTypeRow, AlphanumericRow}

SeqsUpTo(S, n) == UNION {[1..k -> S] : k \in 0..n}

Heading == [cls |-> "heading", strings |-> <<<<"C", "o", "u", "r", "s", "e", " ", "T", "i", "m", "e", "t", "a", "b", "l", "e">>>>, strong |-> <<>>]

BodyPlain == [cls |-> "bodytext", strings |-> <<<<"N", "o", "t", "e", "s">>>>, strong |-> <<>>]

BodyStrong == [cls |-> "bodytext", strings |-> <<<<"U", "p", "d", "a", "t", "e", "d", " ", "J", "a", "n", " ", "1">>>>,
               strong |-> <<<<"U", "p", "d", "a", "t", "e", "d", " ", "J", "a", "n", " ", "1">>>>]

ParaSamples == {<<>>, <<BodyPlain, Heading, BodyStrong>>}

\* the tr elements of the tables nested in the cells of a row, in document order
nested_rows(cells) ==
    Concat([i \in 1..Len(cells) |->
               IF cells[i].hasTable
               THEN [k \in 1..Len(cells[i].table) |->
                        Tr([j \in 1..Len(cells[i].table[k]) |-> plain(cells[i].table[k][j])])]
               ELSE <<>>])

\* the elements es in depth-first order: every row is followed by the rows
\* nested in its cells
linearize(es) == Concat([i \in 1..Len(es) |-> <<es[i]>> \o nested_rows(es[i].row)])

\* tables holding the row with the nested table, in depth-first order
NestedBodies ==
    {linearize(b) : b \in {<<NestedTableRow, HeaderRowOne>>,
                           <<HeaderRowOne, NestedTableRow>>,
                           <<HeaderRowOne, Tr(<<>>), NestedTableRow, HeaderRowTwo>>,
                           <<HeaderRowOne, HeaderRowTwo, Div, NestedTableRow>>}}

PreSamples == {<<>>, <<HeaderRowTwo>>}

PostSamples == {<<>>, <<LectRow>>, <<Div, HeaderRowTwo>>}

Documents ==
    {[paras |-> pa, pre |-> pr, hasTable |-> TRUE, body |-> b, post |-> po] :
        pa \in ParaSamples, pr \in PreSamples, b \in SeqsUpTo(ElemSamples, MaxBody),
        po \in PostSamples}
    \cup
    {[paras |-> pa, pre |-> <<>>, hasTable |-> FALSE, body |-> b, post |-> <<>>] :
        pa \in ParaSamples, b \in SeqsUpTo(ElemSamples, MaxBody)}
    \cup
    {[paras |-> <<>>, pre |-> <<>>, hasTable |-> TRUE, body |-> b, post |-> po] :
        b \in NestedBodies, po \in PostSamples}

\* the document in depth-first order
elements(d) == d.pre \o (IF d.hasTable THEN <<TableTag>> ELSE <<>>) \o d.body \o d.post

\* soup.find("table"): the index of the first table among the elements, 0 for None
find_table(d) == IF d.hasTable THEN Len(d.pre) + 1 ELSE 0

is_header_elem(e) == e.tag /\ e.name = "tr" /\ is_header_row(e.row)

\* [table_row for table_row in table.find_all("tr") if is_header_row(table_row)],
\* as the indexes of those rows among the elements
RECURSIVE HeaderIndexes(_, _, _)
HeaderIndexes(d, i, last) ==
    IF i > last THEN <<>>
    ELSE (IF is_header_elem(elements(d)[i]) THEN <<i>> ELSE <<>>)
         \o HeaderIndexes(d, i + 1, last)

table_header_rows(d) ==
    HeaderIndexes(d, find_table(d) + 1, find_table(d) + Len(d.body))

York == <<"Y", "o", "r", "k", " ", "U", "n", "i", "v", "e", "r", "s", "i", "t", "y">>

extract_metadata_record(d) ==
    LET heading == SelectSeq(d.paras, LAMBDA p : p.cls = "heading")
        updated == SelectSeq(d.paras, LAMBDA p : p.cls = "bodytext" /\ p.strong # <<>>)
    IN  [title |-> IF heading = <<>> THEN <<>> ELSE text_of(heading[1].strings),
         lastUpdated |-> IF updated = <<>> THEN <<>> ELSE text_of(updated[1].strong),
         source |-> York]

\* lines 43-46 without the metadata attached
no_table_result_without_metadata(md) == [courses |-> <<>>]

\* the result for a document without a table
no_table_result(md) ==
    IF md # <<>> THEN [metadata |-> md[1], courses |-> <<>>] ELSE [courses |-> <<>>]

\* lines 70-73 without the metadata attached
walk_result_without_metadata(cs, md) == [courses |-> cs]

\* the result after the walk
walk_result(cs, md) ==
    IF md # <<>> THEN [courses |-> cs, metadata |-> md[1]] ELSE [courses |-> cs]

\* lines 65-67: r is what parse_section_row returned and did to the course
append_section(r) == [r.course EXCEPT !.sections = @ \o r.ret]

\* parameters of parse_section_row, and arguments the walker passes to it
parse_section_row_params == 2

parse_section_row_call_args == 3

NoCourse == [faculty |-> <<>>, department |-> <<>>, term |-> <<>>, courseTitle |-> <<>>,
             courseId |-> <<>>, credits |-> <<>>, languageOfInstruction |-> <<>>,
             sections |-> <<>>]

RowIdle ==
    /\ rcourse = NoCourse
    /\ rrow = <<>>
    /\ rret = <<>>
    /\ rcalls = 0
    /\ rprev = NoCourse

TextIdle ==
    /\ text = <<>>
    /\ out_norm = <<>>
    /\ out_html = <<>>
    /\ applied = 0

WalkIdle ==
    /\ doc = [paras |-> <<>>, pre |-> <<>>, hasTable |-> FALSE, body |-> <<>>, post |-> <<>>]
    /\ extract_metadata = FALSE
    /\ allow_alphanumeric_course_id = TRUE
    /\ pc = "idle"
    /\ header_rows = <<>>
    /\ hi = 0
    /\ pos = 0
    /\ course = NoCourse
    /\ courses = <<>>
    /\ metadata = <<>>
    /\ result = <<>>
    /\ prev_result = <<>>
    /\ calls = 0

TypeIdle ==
    /\ raw_token = <<>>
    /\ normalized_type = <<>>
    /\ classified = FALSE

HeaderIdle ==
    /\ table_row = <<>>
    /\ header_found = <<>>
    /\ header_course = <<>>
    /\ walk_step = ""

DescIdle ==
    /\ desc_courses = <<>>
    /\ descriptions = <<>>
    /\ desc_done = 0

SeedIdle ==
    /\ seed_courses = <<>>
    /\ courses_list = <<>>
    /\ course_code_to_index = <<>>
    /\ instructors_map = {}
    /\ seed_done = FALSE

RunIdle ==
    /\ scrapers = <<>>
    /\ results = <<>>
    /\ invocations = <<>>
    /\ run_pc = "idle"
    /\ exit_code = <<>>

MainIdle ==
    /\ scraper = ""
    /\ outcomes = <<>>
    /\ main_pc = "idle"
    /\ printed = <<>>
    /\ parser_calls = 0
    /\ files_written = <<>>

FillIdle ==
    /\ fill_start = <<>>
    /\ fill_rows = <<>>
    /\ fill_ab = <<>>
    /\ fill_ba = <<>>
    /\ fill_once = <<>>
    /\ fill_twice = <<>>
    /\ fill_pc = "idle"

MergeIdle ==
    /\ json_files = <<>>
    /\ files_done = 0
    /\ all_courses_list = <<>>
    /\ all_course_code_to_index = <<>>
    /\ all_labs_list = <<>>
    /\ all_tutorials_list = <<>>
    /\ all_sections_list = <<>>
    /\ course_files = <<>>
    /\ origins = <<>>

BesidesWalkIdle == RowIdle /\ TextIdle /\ TypeIdle /\ HeaderIdle /\ DescIdle /\ SeedIdle /\ RunIdle /\ MainIdle /\ FillIdle /\ MergeIdle
BesidesRowIdle == WalkIdle /\ TextIdle /\ TypeIdle /\ HeaderIdle /\ DescIdle /\ SeedIdle /\ RunIdle /\ MainIdle /\ FillIdle /\ MergeIdle
BesidesTextIdle == WalkIdle /\ RowIdle /\ TypeIdle /\ HeaderIdle /\ DescIdle /\ SeedIdle /\ RunIdle /\ MainIdle /\ FillIdle /\ MergeIdle
BesidesTypeIdle == WalkIdle /\ RowIdle /\ TextIdle /\ HeaderIdle /\ DescIdle /\ SeedIdle /\ RunIdle /\ MainIdle /\ FillIdle /\ MergeIdle
BesidesHeaderIdle == WalkIdle /\ RowIdle /\ TextIdle /\ TypeIdle /\ DescIdle /\ SeedIdle /\ RunIdle /\ MainIdle /\ FillIdle /\ MergeIdle
BesidesDescIdle == RowIdle /\ TextIdle /\ TypeIdle /\ HeaderIdle /\ WalkIdle /\ SeedIdle /\ RunIdle /\ MainIdle /\ FillIdle /\ MergeIdle
BesidesSeedIdle == RowIdle /\ TextIdle /\ TypeIdle /\ HeaderIdle /\ DescIdle /\ WalkIdle /\ RunIdle /\ MainIdle /\ FillIdle /\ MergeIdle
BesidesRunIdle == RowIdle /\ TextIdle /\ TypeIdle /\ HeaderIdle /\ DescIdle /\ SeedIdle /\ WalkIdle /\ MainIdle /\ FillIdle /\ MergeIdle
BesidesMainIdle == RowIdle /\ TextIdle /\ TypeIdle /\ HeaderIdle /\ DescIdle /\ SeedIdle /\ RunIdle /\ WalkIdle /\ FillIdle /\ MergeIdle
BesidesFillIdle == RowIdle /\ TextIdle /\ TypeIdle /\ HeaderIdle /\ DescIdle /\ SeedIdle /\ RunIdle /\ MainIdle /\ WalkIdle /\ MergeIdle
BesidesMergeIdle == RowIdle /\ TextIdle /\ TypeIdle /\ HeaderIdle /\ DescIdle /\ SeedIdle /\ RunIdle /\ MainIdle /\ FillIdle /\ WalkIdle

Init ==
    /\ doc \in Documents
    /\ extract_metadata = FALSE
    /\ allow_alphanumeric_course_id \in BOOLEAN
    /\ pc = "start"
    /\ header_rows = <<>>
    /\ hi = 0
    /\ pos = 0
    /\ course = NoCourse
    /\ courses = <<>>
    /\ metadata = <<>>
    /\ result = <<>>
    /\ prev_result = <<>>
    /\ calls = 1
    /\ BesidesWalkIdle

\* lines 29-50: the metadata scan, the table lookup and the header-row list
Start ==
    /\ pc = "start"
    /\ LET md == IF extract_metadata THEN <<extract_metadata_record(doc)>> ELSE <<>>
       IN  /\ metadata' = md
           /\ IF find_table(doc) = 0
              THEN /\ result' = <<no_table_result(md)>>
                   /\ pc' = "done"
                   /\ header_rows' = <<>>
                   /\ hi' = 0
              ELSE /\ result' = <<>>
                   /\ pc' = "headers"
                   /\ header_rows' = table_header_rows(doc)
                   /\ hi' = 1
    /\ UNCHANGED <<doc, extract_metadata, pos, course, courses, prev_result, calls>>
    /\ UNCHANGED allow_alphanumeric_course_id
    /\ UNCHANGED besidesWalk

\* lines 51-53: the next header row starts a course
StartCourse ==
    /\ pc = "headers"
    /\ hi <= Len(header_rows)
    /\ course' = parse_course_header(elements(doc)[header_rows[hi]].row)
    /\ pos' = header_rows[hi] + 1
    /\ pc' = "walk"
    /\ UNCHANGED <<doc, extract_metadata, header_rows, hi, courses, metadata, result,
                   prev_result, calls>>
    /\ UNCHANGED allow_alphanumeric_course_id
    /\ UNCHANGED besidesWalk

\* lines 54-67: one element of header_row.next_elements that does not end the walk
WalkElement ==
    /\ pc = "walk"
    /\ pos <= Len(elements(doc))
    /\ LET element == elements(doc)[pos]
       IN  /\ ~is_header_elem(element)
           /\ IF ~element.tag \/ element.name # "tr" \/ element.row = <<>>
              THEN /\ pos' = pos + 1
                   /\ UNCHANGED <<pc, course>>
              ELSE IF parse_section_row_call_args # parse_section_row_params
              THEN \* TypeError: the call does not match the signature
                   /\ pc' = "raised"
                   /\ UNCHANGED <<pos, course>>
              ELSE /\ course' = append_section(parse_section_row(element.row, course))
                   /\ pos' = pos + 1
                   /\ UNCHANGED pc
    /\ UNCHANGED <<doc, extract_metadata, header_rows, hi, courses, metadata, result,
                   prev_result, calls>>
    /\ UNCHANGED allow_alphanumeric_course_id
    /\ UNCHANGED besidesWalk

\* lines 60-61 and 68: a header row or the end of the document ends the walk
EmitCourse ==
    /\ pc = "walk"
    /\ IF pos > Len(elements(doc)) THEN TRUE ELSE is_header_elem(elements(doc)[pos])
    /\ courses' = Append(courses, course)
    /\ hi' = hi + 1
    /\ pc' = "headers"
    /\ UNCHANGED <<doc, extract_metadata, header_rows, pos, course, metadata, result,
                   prev_result, calls>>
    /\ UNCHANGED allow_alphanumeric_course_id
    /\ UNCHANGED besidesWalk

\* lines 70-73
Return ==
    /\ pc = "headers"
    /\ hi > Len(header_rows)
    /\ result' = <<walk_result(courses, metadata)>>
    /\ pc' = "done"
    /\ UNCHANGED <<doc, extract_metadata, header_rows, hi, pos, course, courses, metadata,
                   prev_result, calls>>
    /\ UNCHANGED allow_alphanumeric_course_id
    /\ UNCHANGED besidesWalk

\* the caller parses the same document again, now asking for the metadata
CallAgain ==
    /\ pc \in {"done", "raised"}
    /\ calls = 1
    /\ prev_result' = <<pc, result>>
    /\ calls' = 2
    /\ extract_metadata' = TRUE
    /\ pc' = "start"
    /\ header_rows' = <<>>
    /\ hi' = 0
    /\ pos' = 0
    /\ course' = NoCourse
    /\ courses' = <<>>
    /\ metadata' = <<>>
    /\ result' = <<>>
    /\ UNCHANGED doc
    /\ UNCHANGED allow_alphanumeric_course_id
    /\ UNCHANGED besidesWalk

Next == Start \/ StartCourse \/ WalkElement \/ EmitCourse \/ Return \/ CallAgain

Spec == Init /\ [][Next]_vars

(***************************************************************************)
(* Properties of the course walk, stated for Spec                          *)
(***************************************************************************)
\* the call has ended: it returned or it raised
Ended == pc \in {"done", "raised"}

\* the courses parse_course_header builds from the header rows of the first
\* table, in document order
header_courses(d) ==
    [k \in 1..Len(table_header_rows(d)) |->
        parse_course_header(elements(d)[table_header_rows(d)[k]].row)]

\* the sections lines 54-67 collect for the course c from the elements i, i+1, ...
\* when every call of parse_section_row returns
RECURSIVE sections_from(_, _, _)
sections_from(d, i, c) ==
    IF i > Len(elements(d)) THEN c.sections
    ELSE IF is_header_elem(elements(d)[i]) THEN c.sections
    ELSE IF elements(d)[i].tag /\ elements(d)[i].name = "tr" /\ elements(d)[i].row # <<>>
         THEN sections_from(d, i + 1,
                            append_section(parse_section_row(elements(d)[i].row, c)))
         ELSE sections_from(d, i + 1, c)

\* C1: parse_course_timetable_html never raises, whatever the document.
C1_NeverRaises == pc # "raised"

\* C2: when the call on a document with a table has ended, it has returned a
\* result with exactly one course per header row of the table, in document order.
C2_OneCoursePerHeaderRow ==
    (Ended /\ doc.hasTable) =>
        /\ pc = "done"
        /\ Len(result[1].courses) = Len(table_header_rows(doc))
        /\ \A k \in 1..Len(table_header_rows(doc)) :
              /\ result[1].courses[k].faculty = header_courses(doc)[k].faculty
              /\ result[1].courses[k].department = header_courses(doc)[k].department
              /\ result[1].courses[k].term = header_courses(doc)[k].term
              /\ result[1].courses[k].courseTitle = header_courses(doc)[k].courseTitle

\* C3: when the call has ended, every course of the result holds the sections of
\* the rows between its header row and the next header row, in the order of the
\* rows, and no others.
C3_SectionsFollowTheirHeader ==
    (Ended /\ doc.hasTable) =>
        /\ pc = "done"
        /\ Len(result[1].courses) = Len(table_header_rows(doc))
        /\ \A k \in 1..Len(table_header_rows(doc)) :
              result[1].courses[k].sections =
                  sections_from(doc, table_header_rows(doc)[k] + 1, header_courses(doc)[k])

\* C7: the walk raises at no row that lacks an activity-type token: an exception,
\* if there is one, comes from a row that carries a token.
C7_TypelessRowDoesNotRaise ==
    (pc = "raised") => find_section_type_index(elements(doc)[pos].row) # 0

\* C8: a call on a document without a table returns (it does not raise), the
\* courses of the result are empty, and the result holds the metadata record
\* exactly when the metadata was requested.
C8_NoTableNoCourses ==
    ~doc.hasTable =>
        /\ pc # "raised"
        /\ (pc = "done" =>
              /\ result[1].courses = <<>>
              /\ IF extract_metadata
                 THEN /\ DOMAIN result[1] = {"courses", "metadata"}
                      /\ result[1].metadata = extract_metadata_record(doc)
                 ELSE DOMAIN result[1] = {"courses"})

\* a call without a table has returned with the metadata, on a document that
\* holds rows and paragraphs
C8_Witness ==
    /\ pc = "done"
    /\ ~doc.hasTable
    /\ extract_metadata
    /\ doc.body # <<>>
    /\ doc.paras # <<>>
    /\ result[1].metadata.title # <<>>

\* C9: the second call, with extract_metadata true, ends as the first call with
\* extract_metadata false did; when they return, the first result has no
\* metadata key and the second result is the first one plus the key metadata.
C9_MetadataDoesNotInfluenceWalk ==
    (calls = 2 /\ Ended) =>
        /\ prev_result[1] = pc
        /\ (pc = "done" =>
              /\ DOMAIN prev_result[2][1] = {"courses"}
              /\ DOMAIN result[1] = {"courses", "metadata"}
              /\ result[1].courses = prev_result[2][1].courses)

\* both calls have returned courses from a table, and the second one a title
C9_Witness ==
    /\ calls = 2
    /\ pc = "done"
    /\ doc.hasTable
    /\ Len(result[1].courses) >= 2
    /\ result[1].metadata.title # <<>>

\* the course number id ends in a letter
EndsInLetter(id) == id # <<>> /\ IsUpper(id[Len(id)])

\* the row right after the header row of the course under construction is
\* AlphanumericRow and the walk has come to it
AlphanumericRowWalked ==
    /\ pc \in {"walk", "raised"}
    /\ header_rows[hi] + 1 <= Len(elements(doc))
    /\ elements(doc)[header_rows[hi] + 1] = AlphanumericRow
    /\ (pos > header_rows[hi] + 1 \/ pc = "raised")

\* C13: with allow_alphanumeric_course_id true, a row carrying 4800Q 3.00 A
\* sets the courseId of its course to 4800Q; with the flag false, no courseId
\* of a course ends in a letter.
C13_FlagDecidesTrailingLetter ==
    /\ (allow_alphanumeric_course_id /\ AlphanumericRowWalked) =>
            course.courseId = <<"4", "8", "0", "0", "Q">>
    /\ ~allow_alphanumeric_course_id =>
            /\ ~EndsInLetter(course.courseId)
            /\ \A k \in 1..Len(courses) : ~EndsInLetter(courses[k].courseId)

\* the walk has come to a row of a nested schedule table
NestedRowReached ==
    /\ pc \in {"walk", "raised"}
    /\ pos <= Len(elements(doc))
    /\ \E k \in 1..Len(nested_rows(NestedTableRow.row)) :
           elements(doc)[pos] = nested_rows(NestedTableRow.row)[k]

\* the walk has come to a row with cells located after the end of the table
RowAfterTableReached ==
    /\ pc \in {"walk", "raised"}
    /\ pos > find_table(doc) + Len(doc.body)
    /\ pos <= Len(elements(doc))
    /\ elements(doc)[pos].row # <<>>

\* a section has been appended to a course
SectionAppended ==
    \/ course.sections # <<>>
    \/ \E k \in 1..Len(courses) : courses[k].sections # <<>>

\* The walk appends no section at all and never comes to a nested row: the
\* call of line 65 raises at the first row with cells that it reaches, and the
\* row that holds a nested table comes before the rows of that table.  What
\* rows of a nested table (C25) and rows after the end of the table (C26)
\* contribute is therefore not observable in any reachable state.
NoSectionEverAppended == ~SectionAppended /\ ~NestedRowReached

\* a row after the end of the table is handed to parse_section_row like a row
\* of the table: the walk has raised there
RowAfterTableRaised == RowAfterTableReached /\ pc = "raised"

(***************************************************************************)
(* SpecRow: a course built by parse_course_header, then direct calls of    *)
(* parse_section_row(row_cells, course) with two arguments.                *)
(* A row is a prefix of cells, a cell at the activity-type position and a  *)
(* suffix of cells.                                                        *)
(***************************************************************************)
ScheduleTable ==
    <<<<<<"M", "o", "n">>, <<"1", "2", ":", "0", "0">>, <<"1", "h">>, <<"K", "E", "E", "L", "E">>, <<" ", "A", "C", "E", "1", "0", "1", " ">>>>,
      <<<<"T", "u", "e">>, <<"9", ":", "0", "0">>, <<"1", "h">>>>,
      <<<<>>, <<" ">>, <<>>, <<>>, <<>>>>>>

\* a schedule cell holding the nested table, an instructor cell and a notes cell
NestedScheduleCell ==
    [cls |-> "", colspan |-> FALSE, own |-> <<" ">>, hasTable |-> TRUE,
     table |-> ScheduleTable,
     kids |-> <<<<<<"P", "r", "o", "f", " ", "O", "n", "e">>, <<"P", "r", "o", "f", " ", "T", "w", "o">>>>, <<<<"B", "r", "i", "n", "g", " ", "l", "a", "p", "t", "o", "p">>>>>>]

\* a schedule cell without a table, holding an empty instructor cell and a notes cell
NotesOnlyCell ==
    [cls |-> "", colspan |-> FALSE, own |-> <<>>, hasTable |-> FALSE, table |-> <<>>,
     kids |-> <<<<>>, <<<<"P", "r", "i", "m", "a", "r", "y">>>>>>]

\* a schedule cell with a text of its own and one nested cell
InstructorOnlyCell ==
    [cls |-> "", colspan |-> FALSE, own |-> <<"F", "r", "i", " ", "1", "0", ":", "0", "0">>, hasTable |-> FALSE, table |-> <<>>,
     kids |-> <<<<<<"P", "r", "o", "f", " ", "S", "o", "l", "o", ",", " ", "P", "r", "o", "f", " ", "D", "u", "o">>>>>>]

\* a schedule cell holding a table without rows
EmptyTableCell ==
    [cls |-> "", colspan |-> FALSE, own |-> <<>>, hasTable |-> TRUE, table |-> <<>>,
     kids |-> <<>>]

RowPrefixes ==
    {<<>>,
     <<plain(<<"5", "0", "0", "1", " ", "3", ".", "0", "0", " ", "A">>), plain(<<"E", "N">>)>>,
     <<plain(<<"9", "9", "9", "9", " ", "4", ".", "0", "0", " ", "Z">>), plain(<<"F", "R">>)>>,
     <<plain(<<"4", "8", "0", "0", "Q", " ", "3", ".", "0", "0">>), plain(<<>>)>>,
     <<plain(<<"F", "R", "A">>), plain(<<"1", "0", "0", "3">>)>>}

TypeCells == {plain(<<"L", "E", "C">>), plain(<<" ", "L", "a", "b", " ">>), plain(<<"0", "4">>), plain(<<>>)}

RowSuffixes ==
    {<<>>,
     <<plain(<<"0", "1">>)>>,
     <<plain(<<>>), plain(<<>>), plain(<<" ">>)>>,
     <<plain(<<"0", "1">>), plain(<<"A", "0", "1">>), NestedScheduleCell>>,
     <<plain(<<"0", "2">>), plain(<<"E", "7", "7", "J", "0", "2">>), plain(<<"T", "B", "A">>)>>,
     <<plain(<<"0", "3">>), plain(<<"C", "a", "n", "c", "e", "l", "l", "e", "d">>), plain(<<>>), plain(<<"L", "a", "t", "e", " ", "n", "o", "t", "e">>)>>,
     <<plain(<<"0", "3">>), plain(<<"c", "a", "n", "c", "e", "l", "l", "e", "d">>), plain(<<>>), plain(<<" ">>), plain(<<"W", "e", "a", "t", "h", "e", "r">>)>>,
     <<plain(<<"0", "1">>), plain(<<"c", "a", "n", "c", "e", "l", "l", "e", "d">>), plain(<<"s", "o", "m", "e", " ", "s", "c", "h", "e", "d", "u", "l", "e">>)>>,
     <<plain(<<"0", "1">>), plain(<<"C", "A", "N", "C", "E", "L", "L", "E", "D">>), plain(<<"C", "a", "n", "c", "e", "l", "l", "e", "d">>)>>,
     <<plain(<<"0", "1">>), plain(<<"c", "a", "n", "c", "e", "l", "l", "e", "d">>), NestedScheduleCell>>,
     <<plain(<<"0", "1">>), plain(<<"c", "a", "n", "c", "e", "l", "l", "e", "d">>), EmptyTableCell>>,
     <<plain(<<"0", "1">>), plain(<<"c", "a", "n", "c", "e", "l", "l", "e", "d">>), NotesOnlyCell, plain(<<"O", "t", "h", "e", "r">>)>>,
     <<plain(<<"0", "3">>), plain(<<"C", "a", "n", "c", "e", "l", "l", "e", "d">>), plain(<<>>), plain(<<"F", "i", "r", "s", "t">>), plain(<<"S", "e", "c", "o", "n", "d">>)>>,
     <<plain(<<"0", "1">>), plain(<<"A", "0", "1">>), plain(<<"T", "B", "A">>), plain(<<"S", "t", "r", "a", "y">>), plain(<<"C", "e", "l", "l">>)>>,
     <<plain(<<"0", "1">>), plain(<<"B", "0", "1">>), InstructorOnlyCell>>}

\* the rows handed to parse_section_row: every prefix before every type cell, and
\* every type cell before every suffix
Rows ==
    {p \o <<t>> : p \in RowPrefixes, t \in TypeCells}
        \cup {<<t>> \o x : t \in TypeCells, x \in RowSuffixes}

InitRow ==
    /\ rcourse = parse_course_header(HeaderRowOne.row)
    /\ rrow = <<>>
    /\ rret = <<>>
    /\ rcalls = 0
    /\ rprev = rcourse
    /\ BesidesRowIdle

\* a header row starts a new course
ParseCourseHeader ==
    /\ \E h \in {HeaderRowOne, HeaderRowTwo} : rcourse' = parse_course_header(h.row)
    /\ rprev' = rcourse'
    /\ rrow' = <<>>
    /\ rret' = <<>>
    /\ rcalls' = 0
    /\ UNCHANGED besidesRow

\* r is what parse_section_row returned and did to the course
ApplyRow(row, r) ==
    /\ rprev' = rcourse
    /\ rcourse' = r.course
    /\ rret' = r.ret
    /\ rrow' = row
    /\ rcalls' = rcalls + 1

ParseSectionRow ==
    /\ rcalls < MaxCalls
    /\ \E row \in Rows : ApplyRow(row, parse_section_row(row, rcourse))
    /\ UNCHANGED besidesRow

NextRow == ParseCourseHeader \/ ParseSectionRow

SpecRow == InitRow /\ [][NextRow]_vars

(***************************************************************************)
(* Properties of parse_section_row, stated for SpecRow                     *)
(***************************************************************************)
\* what the row of the last call carries before its activity-type cell
own_summary(row_cells) ==
    fill_course_summary_and_loi(row_cells, find_section_type_index(row_cells), NoCourse).course

\* the last call returned a section of a cancelled row
CancelledSection == rret # <<>> /\ Lower(rret[1].catalogNumber) = Cancelled

\* the cell at the schedule position (+3) of the last row is absent, or holds
\* no nested table and a text that is empty or reads "cancelled"
NoScheduleText ==
    \/ Len(rrow) < find_section_type_index(rrow) + 3
    \/ /\ ~rrow[find_section_type_index(rrow) + 3].hasTable
       /\ Lower(cell_text(rrow[find_section_type_index(rrow) + 3])) \in {<<>>, Cancelled}

\* C4: a call of parse_section_row changes none of courseId, credits and
\* languageOfInstruction that was non-empty before the call.
C4_FirstSeenWins ==
    /\ (rprev.courseId # <<>> => rcourse.courseId = rprev.courseId)
    /\ (rprev.credits # <<>> => rcourse.credits = rprev.credits)
    /\ (rprev.languageOfInstruction # <<>> =>
            rcourse.languageOfInstruction = rprev.languageOfInstruction)

\* the course had its three fields, and the row of the last call carries
\* another courseId, other credits and another language
C4_Witness ==
    /\ rcalls = 2
    /\ find_section_type_index(rrow) # 0
    /\ rprev.courseId # <<>>
    /\ rprev.credits # <<>>
    /\ rprev.languageOfInstruction # <<>>
    /\ own_summary(rrow).courseId \notin {<<>>, rprev.courseId}
    /\ own_summary(rrow).credits \notin {<<>>, rprev.credits}
    /\ own_summary(rrow).languageOfInstruction \notin {<<>>, rprev.languageOfInstruction}

\* C5 as stated: the section of a cancelled row has an empty schedule list,
\* whatever the cell at the schedule position holds.
C5_CancelledNeverScheduled == CancelledSection => rret[1].schedule = <<>>

\* C5 amended: the section of a cancelled row has an empty schedule list when
\* the cell at the schedule position is absent, or holds no nested table and a
\* text that is empty or reads "cancelled" in any letter case.
C5_CancelledWithoutScheduleText ==
    (CancelledSection /\ NoScheduleText) => rret[1].schedule = <<>>

\* a cancelled row whose schedule cell reads "Cancelled"
C5_Witness ==
    /\ CancelledSection
    /\ Len(rrow) >= find_section_type_index(rrow) + 3
    /\ Lower(cell_text(rrow[find_section_type_index(rrow) + 3])) = Cancelled
    /\ rret[1].schedule = <<>>

\* C6: a section parse_section_row returns has at least one non-empty field
\* among type, meetNumber, catalogNumber, schedule, instructors and notes.
C6_RetainedHasContent ==
    rret # <<>> =>
        \/ rret[1].type # <<>>
        \/ rret[1].meetNumber # <<>>
        \/ rret[1].catalogNumber # <<>>
        \/ rret[1].schedule # <<>>
        \/ rret[1].instructors # <<>>
        \/ rret[1].notes # <<>>

\* a returned section whose only non-empty field is the type
C6_Witness ==
    /\ rret # <<>>
    /\ rret[1].type # <<>>
    /\ rret[1].meetNumber = <<>>
    /\ rret[1].catalogNumber = <<>>
    /\ rret[1].schedule = <<>>
    /\ rret[1].instructors = <<>>
    /\ rret[1].notes = <<>>

\* position of the activity-type cell of the last row, 0 when it has none
TypeAt == find_section_type_index(rrow)

\* the catalogue cell (+2) of the last row reads "cancelled" in any letter case
RowIsCancelled ==
    /\ TypeAt # 0
    /\ Len(rrow) >= TypeAt + 2
    /\ Lower(cell_text(rrow[TypeAt + 2])) = Cancelled

\* the notes at the primary position: the second cell nested in the schedule
\* cell (+3) of the last row
PrimaryNotes ==
    IF Len(rrow) >= TypeAt + 3 /\ Len(rrow[TypeAt + 3].kids) >= 2
    THEN parse_notes(kid_html(rrow[TypeAt + 3].kids[2]))
    ELSE <<>>

\* the parsed text of the cell k cells after the activity-type cell, empty
\* when the row has no such cell
TextAtOffset(k) ==
    IF Len(rrow) >= TypeAt + k THEN parse_notes(decode_contents(rrow[TypeAt + k]))
    ELSE <<>>

RecoveredNotes ==
    IF TextAtOffset(4) # <<>> THEN TextAtOffset(4)
    ELSE IF TextAtOffset(5) # <<>> THEN TextAtOffset(5)
    ELSE <<>>

\* C20: the section of a cancelled row without notes at the primary position
\* has the parsed text of the cell at +4 as its notes when that text is not
\* empty, otherwise that of the cell at +5 when not empty, otherwise empty
\* notes; the section of any other row has the notes of the primary position,
\* whatever the cells at +4 and +5 hold.  A cancelled row always gives a
\* section.
C20_CancelledNotesRecovery ==
    /\ RowIsCancelled => rret # <<>>
    /\ (TypeAt # 0 /\ rret # <<>>) =>
            rret[1].notes = IF RowIsCancelled /\ PrimaryNotes = <<>>
                            THEN RecoveredNotes
                            ELSE PrimaryNotes

\* a cancelled row without primary notes whose cells at +4 and +5 both hold
\* text: the notes are those of +4
C20_Witness ==
    /\ RowIsCancelled
    /\ rret # <<>>
    /\ PrimaryNotes = <<>>
    /\ TextAtOffset(4) # <<>>
    /\ TextAtOffset(5) \notin {<<>>, TextAtOffset(4)}
    /\ rret[1].notes = TextAtOffset(4)

\* the schedule cell (+3) of the last row, when the row has one
HasScheduleCell == TypeAt # 0 /\ Len(rrow) >= TypeAt + 3

AllFieldsEmpty(e) ==
    e.day = <<>> /\ e.time = <<>> /\ e.duration = <<>> /\ e.campus = <<>> /\ e.room = <<>>

\* the entry of the flat fallback: the text as time, the other fields empty
TimeOnly(t) ==
    [day |-> <<>>, time |-> t, duration |-> <<>>, campus |-> <<>>, room |-> <<>>]

\* number of rows of the nested table with at least 5 cells
FullRows(table) == Cardinality({i \in 1..Len(table) : Len(table[i]) >= 5})

\* C21: no entry of a returned section's schedule has its five fields empty;
\* a nested table gives at most one entry for each of its rows of at least 5
\* cells; without a nested table the schedule is one entry carrying the text
\* of the schedule cell as time when that text is not empty and does not
\* read "cancelled", and is empty otherwise.
C21_NoEmptyScheduleEntry ==
    rret # <<>> =>
        /\ \A k \in 1..Len(rret[1].schedule) : ~AllFieldsEmpty(rret[1].schedule[k])
        /\ ~HasScheduleCell => rret[1].schedule = <<>>
        /\ (HasScheduleCell /\ rrow[TypeAt + 3].hasTable) =>
                Len(rret[1].schedule) <= FullRows(rrow[TypeAt + 3].table)
        /\ (HasScheduleCell /\ ~rrow[TypeAt + 3].hasTable) =>
                rret[1].schedule =
                    IF cell_text(rrow[TypeAt + 3]) = <<>>
                          \/ Lower(cell_text(rrow[TypeAt + 3])) = Cancelled
                    THEN <<>>
                    ELSE <<TimeOnly(cell_text(rrow[TypeAt + 3]))>>

\* a nested table holding a row of 5 blank cells beside a row that gives an
\* entry
C21_Witness ==
    /\ rret # <<>>
    /\ HasScheduleCell
    /\ rrow[TypeAt + 3].hasTable
    /\ rret[1].schedule # <<>>
    /\ Len(rret[1].schedule) < FullRows(rrow[TypeAt + 3].table)

\* number of cells nested directly in the schedule cell (+3) of the last row
DirectChildren == IF HasScheduleCell THEN Len(rrow[TypeAt + 3].kids) ELSE 0

\* C22: the instructors of a returned section are those parsed from the first
\* cell nested directly in the schedule cell, and the empty list when there
\* is no such cell; its notes, unless the row is cancelled without notes at
\* the primary position, are those parsed from the second such cell, and
\* empty when there is none.  The text of the schedule cell itself and of its
\* nested table gives neither.
C22_InstructorsAndNotesFromDirectChildren ==
    rret # <<>> =>
        /\ rret[1].instructors =
                IF DirectChildren >= 1
                THEN parse_instructors(kid_html(rrow[TypeAt + 3].kids[1]))
                ELSE <<>>
        /\ ~(RowIsCancelled /\ PrimaryNotes = <<>>) =>
                rret[1].notes =
                    IF DirectChildren >= 2
                    THEN parse_notes(kid_html(rrow[TypeAt + 3].kids[2]))
                    ELSE <<>>

\* a schedule cell with a text of its own and a single nested cell: the
\* instructors are those of the nested cell and the notes are empty
C22_Witness ==
    /\ rret # <<>>
    /\ DirectChildren = 1
    /\ cell_text(rrow[TypeAt + 3]) # <<>>
    /\ Len(rret[1].instructors) = 2
    /\ rret[1].notes = <<>>

\* C28: after the header and any calls of parse_section_row, the courseId of
\* the course is empty exactly when its credits are; a call that sets them
\* takes both from one cell before the activity-type cell of its row, and a
\* later call changes neither.
C28_CourseIdAndCreditsTogether ==
    /\ (rcourse.courseId = <<>>) <=> (rcourse.credits = <<>>)
    /\ (rprev.courseId = <<>> /\ rcourse.courseId # <<>>) =>
            \E j \in 1..(TypeAt - 1) :
                /\ Contains(cell_text(rrow[j]), rcourse.courseId)
                /\ Contains(cell_text(rrow[j]), rcourse.credits)
    /\ rprev.courseId # <<>> =>
            /\ rcourse.courseId = rprev.courseId
            /\ rcourse.credits = rprev.credits

\* the second call came with a row that carries another courseId and other
\* credits: the course keeps the pair of the first row
C28_Witness ==
    /\ rcalls = 2
    /\ TypeAt # 0
    /\ rcourse.courseId # <<>>
    /\ rcourse.credits # <<>>
    /\ own_summary(rrow).courseId \notin {<<>>, rcourse.courseId}
    /\ own_summary(rrow).credits \notin {<<>>, rcourse.credits}
    /\ rcourse = rprev

\* some cell of the last row carries a course number with credits, and some
\* cell a language token
CarriesSummaryAndLanguage ==
    /\ \E j \in 1..Len(rrow) : summary_search(cell_text(rrow[j])) # <<>>
    /\ \E j \in 1..Len(rrow) : is_loi_token(cell_text(rrow[j]))

\* C29: a call of parse_section_row on a row without an activity-type cell
\* returns None and leaves the course as it was: courseId, credits,
\* languageOfInstruction, sections and every other field.
C29_TypelessRowLeavesCourse ==
    (rcalls > 0 /\ TypeAt = 0) =>
        /\ rret = <<>>
        /\ rcourse = rprev

\* a row without an activity type that carries a course number, credits and a
\* language, met by a course that has none of them yet
C29_Witness ==
    /\ rcalls > 0
    /\ TypeAt = 0
    /\ CarriesSummaryAndLanguage
    /\ rprev.courseId = <<>>
    /\ rprev.languageOfInstruction = <<>>
    /\ rcourse.courseId = <<>>
    /\ rcourse.languageOfInstruction = <<>>

(***************************************************************************)
(* SpecText: norm_text and html_to_text applied to a text, then applied    *)
(* again to what they returned.  A text is a concatenation of tokens.      *)
(***************************************************************************)
Tokens ==
    {<<"&">>, <<"a", "m", "p", ";">>, <<"l", "t", ";">>, <<"g", "t", ";">>, <<" ">>, <<"x">>, <<"<">>, <<">">>,
     <<"<", "b", "r", ">">>, <<NBSP>>}

Texts == {Concat(ts) : ts \in SeqsUpTo(Tokens, MaxTokens)}

Separators == {<<"|">>, <<" ", "|", " ">>}

InitText ==
    /\ text \in Texts
    /\ out_norm = <<>>
    /\ out_html = <<>>
    /\ applied = 0
    /\ BesidesTextIdle

\* out_norm and out_html list what the successive applications returned
ApplyOnce ==
    /\ applied = 0
    /\ \E sep \in Separators :
          /\ out_norm' = <<norm_text(text)>>
          /\ out_html' = <<sep, html_to_text(text, sep)>>
    /\ applied' = 1
    /\ UNCHANGED text
    /\ UNCHANGED besidesText

ApplyAgain ==
    /\ applied = 1
    /\ out_norm' = Append(out_norm, norm_text(out_norm[1]))
    /\ out_html' = Append(out_html, html_to_text(out_html[2], out_html[1]))
    /\ applied' = 2
    /\ UNCHANGED text
    /\ UNCHANGED besidesText

NextText == ApplyOnce \/ ApplyAgain

SpecText == InitText /\ [][NextText]_vars

(***************************************************************************)
(* Properties of norm_text and html_to_text, stated for SpecText           *)
(***************************************************************************)
\* C10 as stated: for every text, norm_text and html_to_text applied to what
\* they returned give it back unchanged.
C10_Idempotent ==
    applied = 2 => (out_norm[2] = out_norm[1] /\ out_html[3] = out_html[2])

\* C10 amended: for every text that html.unescape leaves unchanged (a text
\* without a character-entity reference), norm_text and html_to_text applied
\* to what they returned give it back unchanged.
C10_IdempotentWithoutReferences ==
    (applied = 2 /\ unescape(text) = text) =>
        (out_norm[2] = out_norm[1] /\ out_html[3] = out_html[2])

\* a text without a reference, holding an ampersand and markup, that both
\* functions changed, each in its way
C10_Witness ==
    /\ applied = 2
    /\ unescape(text) = text
    /\ Contains(text, <<"&">>)
    /\ out_norm[1] # text
    /\ out_html[2] # out_norm[1]
    /\ out_norm[2] = out_norm[1]
    /\ out_html[3] = out_html[2]

(***************************************************************************)
(* SpecType: get_section_type applied to one raw token.  The tokens are    *)
(* the spellings of tests/helpers/test_section_types.py, some tokens that  *)
(* hold no activity type, and up to MaxWords words joined by a space.      *)
(***************************************************************************)
Spellings ==
    {<<"L", "E", "C">>,
     <<"L", "E", "C", "T">>,
     <<"L", "e", "c", "t", "u", "r", "e">>,
     <<"l", "e", "c", "t">>,
     <<"L", "A", "B">>,
     <<"L", "a", "b", "o", "r", "a", "t", "o", "r", "y">>,
     <<"T", "U", "T">>,
     <<"T", "U", "T", "R">>,
     <<"T", "u", "t", "o", "r", "i", "a", "l">>,
     <<"S", "E", "M">>,
     <<"S", "E", "M", "R">>,
     <<"S", "e", "m", "i", "n", "a", "r">>,
     <<"S", "E", "M", "I", "N", "A", "R">>,
     <<"S", "T", "D", "O">>,
     <<"S", "t", "u", "d", "i", "o">>,
     <<"S", "T", "U", "D", "I", "O">>,
     <<"B", "L", "E", "N">>,
     <<"B", "l", "e", "n", "d", "e", "d">>,
     <<"B", "L", "E", "N", "D", "E", "D">>,
     <<"O", "N", "L">>,
     <<"O", "N", "L", "N">>,
     <<"O", "n", "l", "i", "n", "e">>,
     <<"O", "N", "L", "I", "N", "E">>,
     <<"O", "N", "C", "A">>,
     <<"C", "O", "O", "P">>,
     <<"C", "o", "-", "o", "p">>,
     <<"C", "O", "O", "P", "T", "E", "R", "M">>,
     <<"C", "O", "O", "P", "W", "O", "R", "K", "T", "E", "R", "M">>,
     <<"I", "S", "T", "Y">>,
     <<"i", "n", "d", " ", "s", "t", "u", "d", "y">>,
     <<"I", "N", "D", "E", "P", "E", "N", "D", "E", "N", "T", "S", "T", "U", "D", "Y">>,
     <<"I", "N", "D", "S", "T", "U", "D", "Y">>,
     <<"I", "D", "S">>,
     <<"I", "n", "d", "i", "v", "i", "d", "u", "a", "l", " ", "D", "i", "r", "e", "c", "t", "e", "d", " ", "S", "t", "u", "d", "y">>,
     <<"D", "I", "R", "D">>,
     <<"D", "i", "r", "e", "c", "t", "e", "d", " ", "S", "t", "u", "d", "y">>,
     <<"D", "I", "R", "E", "C", "T", "E", "D", "S", "T", "U", "D", "Y">>,
     <<"F", "D", "E", "X">>,
     <<"F", "i", "e", "l", "d", " ", "E", "x", "e", "r", "c", "i", "s", "e">>,
     <<"F", "I", "E", "L", "D", "E", "X", "E", "R", "C", "I", "S", "E">>,
     <<"F", "I", "E", "L">>,
     <<"F", "i", "e", "l", "d", " ", "T", "r", "i", "p">>,
     <<"F", "I", "E", "L", "D", "W", "O", "R", "K">>,
     <<"I", "N", "S", "P">>,
     <<"I", "n", "t", "e", "r", "n", "s", "h", "i", "p">>,
     <<"I", "N", "T", "E", "R", "N", "S", "H", "I", "P">>,
     <<"R", "E", "S", "P">>,
     <<"R", "e", "s", "e", "a", "r", "c", "h">>,
     <<"R", "E", "S", "E", "A", "R", "C", "H">>,
     <<"R", "E", "E", "V">>,
     <<"R", "e", "s", "e", "a", "r", "c", "h", " ", "E", "v", "a", "l", "u", "a", "t", "i", "o", "n">>,
     <<"R", "E", "S", "E", "A", "R", "C", "H", " ", "E", "V", "A", "L", "U", "A", "T", "I", "O", "N">>,
     <<"R", "e", "s", "e", "a", "r", "c", "h", "E", "v", "a", "l", "u", "a", "t", "i", "o", "n">>,
     <<"T", "H", "E", "S">>,
     <<"T", "h", "e", "s", "i", "s">>,
     <<"T", "H", "E", "S", "I", "S">>,
     <<"W", "K", "S", "P">>,
     <<"W", "o", "r", "k", "s", "h", "o", "p">>,
     <<"W", "O", "R", "K", "S", "H", "O", "P">>,
     <<"W", "R", "K", "S">>,
     <<"W", "R", "K">>,
     <<"P", "R", "A", "C">>,
     <<"P", "r", "a", "c", "t", "i", "c", "u", "m">>,
     <<"P", "R", "A">>,
     <<"C", "L", "I", "N">>,
     <<"C", "l", "i", "n", "i", "c", "a", "l">>,
     <<"C", "L", "I", "N", "I", "C", "A", "L">>,
     <<"H", "Y", "F", "X">>,
     <<"H", "y", "b", "r", "i", "d", " ", "F", "l", "e", "x">>,
     <<"H", "Y", "B", "R", "I", "D", "F", "L", "E", "X">>,
     <<"C", "O", "R", "S">>,
     <<"C", "o", "r", "r", "e", "s", "p", "o", "n", "d", "e", "n", "c", "e">>,
     <<"C", "O", "R", "R", "E", "S", "P", "O", "N", "D", "E", "N", "C", "E">>,
     <<"D", "I", "S", "S">>,
     <<"D", "i", "s", "s", "e", "r", "t", "a", "t", "i", "o", "n">>,
     <<"D", "I", "S", "S", "E", "R", "T", "A", "T", "I", "O", "N">>,
     <<"L", "G", "C", "L">>,
     <<"L", "a", "n", "g", "u", "a", "g", "e", " ", "C", "l", "a", "s", "s", "e", "s">>,
     <<"L", "A", "N", "G", "U", "A", "G", "E", "C", "L", "A", "S", "S", "E", "S">>,
     <<"P", "E", "R", "F">>,
     <<"P", "e", "r", "f", "o", "r", "m", "a", "n", "c", "e">>,
     <<"P", "E", "R", "F", "O", "R", "M", "A", "N", "C", "E">>,
     <<"R", "E", "M", "T">>,
     <<"R", "e", "m", "o", "t", "e">>,
     <<"R", "E", "M", "O", "T", "E">>,
     <<"R", "E", "V", "P">>,
     <<"R", "e", "v", "i", "e", "w", " ", "P", "a", "p", "e", "r">>,
     <<"R", "E", "V", "I", "E", "W", "P", "A", "P", "E", "R">>,
     <<"u", "n", "k", "n", "o", "w", "n">>,
     <<"X", "Y", "Z">>,
     <<>>,
     <<" ", " ", " ">>,
     <<"l", "e", "c">>,
     <<"L", "e", "c">>,
     <<"L", "e", "C", "t">>,
     <<" ", " ", "L", "E", "C", " ", " ">>,
     <<NBSP, " ">>,
     <<"L", "A", "B", " ", "0", "4">>,
     <<"0", "4">>,
     <<"L", "e", "c", " ", "0", "1">>,
     <<"R", "&", "D">>}

TypeWords ==
    {<<"L", "A", "B">>,
     <<"L", "e", "c">>,
     <<"T", "u", "t", "o", "r", "i", "a", "l">>,
     <<"R", "e", "s", "e", "a", "r", "c", "h">>,
     <<"E", "v", "a", "l", "u", "a", "t", "i", "o", "n">>,
     <<"D", "i", "r", "e", "c", "t", "e", "d", " ", "S", "t", "u", "d", "y">>,
     <<"I", "n", "d", "i", "v", "i", "d", "u", "a", "l">>,
     <<"W", "R", "K">>,
     <<"S", "H", "O", "P">>,
     <<"C", "o", "r", "r", "e", "s", "p", "o", "n", "d", "e", "n", "c", "e">>,
     <<"x">>}

MaxWords == 2

\* the words of ws joined by a space
JoinWords(ws) == Concat([i \in 1..Len(ws) |-> IF i = 1 THEN ws[i] ELSE <<" ">> \o ws[i]])

Patterns == {SECTION_TYPE_MAPPINGS[k][1] : k \in 1..Len(SECTION_TYPE_MAPPINGS)}

RawTokens ==
    Spellings \cup Patterns \cup {JoinWords(ws) : ws \in SeqsUpTo(TypeWords, MaxWords)}

InitType ==
    /\ raw_token \in RawTokens
    /\ normalized_type = <<>>
    /\ classified = FALSE
    /\ BesidesTypeIdle

Classify ==
    /\ ~classified
    /\ normalized_type' = get_section_type(raw_token)
    /\ classified' = TRUE
    /\ UNCHANGED raw_token
    /\ UNCHANGED besidesType

NextType == Classify

SpecType == InitType /\ [][NextType]_vars

(***************************************************************************)
(* Properties of get_section_type, stated for SpecType                     *)
(***************************************************************************)
\* the uppercased letters-only token the patterns are tested against
compact_token(t) == KeepLetters(Upper(norm_text(t)))

\* pattern k of the table occurs in c and no pattern before it does
FirstOccurring(c, k) ==
    /\ Contains(c, SECTION_TYPE_MAPPINGS[k][1])
    /\ \A j \in 1..(k - 1) : ~Contains(c, SECTION_TYPE_MAPPINGS[j][1])

CodesOccurring(c) ==
    {SECTION_TYPE_MAPPINGS[k][2] : k \in MatchingPatterns(c)}

ResearchEvaluationSpellings ==
    {<<"R", "E", "E", "V">>,
     <<"R", "e", "s", "e", "a", "r", "c", "h", " ", "E", "v", "a", "l", "u", "a", "t", "i", "o", "n">>,
     <<"R", "E", "S", "E", "A", "R", "C", "H", " ", "E", "V", "A", "L", "U", "A", "T", "I", "O", "N">>,
     <<"R", "e", "s", "e", "a", "r", "c", "h", "E", "v", "a", "l", "u", "a", "t", "i", "o", "n">>}

IndividualDirectedStudySpellings ==
    {<<"I", "D", "S">>,
     <<"I", "n", "d", "i", "v", "i", "d", "u", "a", "l", " ", "D", "i", "r", "e", "c", "t", "e", "d", " ", "S", "t", "u", "d", "y">>}

WorkshopSpellings ==
    {<<"W", "O", "R", "K", "S", "H", "O", "P">>,
     <<"W", "o", "r", "k", "s", "h", "o", "p">>}

FirstInTableOrder(c, code) ==
    /\ \A k \in 1..Len(SECTION_TYPE_MAPPINGS) :
          FirstOccurring(c, k) => code = SECTION_TYPE_MAPPINGS[k][2]
    /\ \A k \in 1..Len(SECTION_TYPE_MAPPINGS) :
          c = SECTION_TYPE_MAPPINGS[k][1] => code = SECTION_TYPE_MAPPINGS[k][2]

official_types ==
    {<<"B", "L", "E", "N">>,
     <<"C", "L", "I", "N">>,
     <<"C", "O", "R", "S">>,
     <<"D", "I", "R", "D">>,
     <<"D", "I", "S", "S">>,
     <<"F", "D", "E", "X">>,
     <<"F", "I", "E", "L">>,
     <<"H", "Y", "F", "X">>,
     <<"I", "D", "S">>,
     <<"I", "N", "S", "P">>,
     <<"I", "S", "T", "Y">>,
     <<"L", "A", "B">>,
     <<"L", "E", "C", "T">>,
     <<"L", "G", "C", "L">>,
     <<"O", "N", "C", "A">>,
     <<"O", "N", "L", "N">>,
     <<"P", "E", "R", "F">>,
     <<"P", "R", "A", "C">>,
     <<"R", "E", "E", "V">>,
     <<"R", "E", "M", "T">>,
     <<"R", "E", "S", "P">>,
     <<"R", "E", "V", "P">>,
     <<"S", "E", "M", "R">>,
     <<"S", "T", "D", "O">>,
     <<"T", "H", "E", "S">>,
     <<"T", "U", "T", "R">>,
     <<"W", "K", "S", "P">>}

\* the codes that test_coop_variants and test_workshop_variants expect besides
OtherCodes ==
    {<<"C", "O", "O", "P">>,
     <<"W", "R", "K", "S">>}

UnrecognizedTokens ==
    {<<"u", "n", "k", "n", "o", "w", "n">>,
     <<"X", "Y", "Z">>,
     <<>>,
     <<" ", " ", " ">>,
     <<"0", "4">>}

\* c is the code of a pattern that, given as the token, returns c
HasSpelling(c) ==
    \E k \in 1..Len(SECTION_TYPE_MAPPINGS) :
        /\ SECTION_TYPE_MAPPINGS[k][2] = c
        /\ get_section_type(SECTION_TYPE_MAPPINGS[k][1]) = c

EmptyForUnrecognized(t, code) ==
    /\ MatchingPatterns(compact_token(t)) = {} => code = <<>>
    /\ strip(t) = <<>> => code = <<>>
    /\ t \in UnrecognizedTokens => code = <<>>

nested_cell(style, span, t, inner) ==
    [cls |-> style, colspan |-> span, own |-> t, hasTable |-> FALSE,
     table |-> <<>>, kids |-> <<inner>>]

CellSamples ==
    {head_cell(<<"E", "E", "C", "S">>, FALSE),
     head_cell(<<" ", " ", "F", "a", "l", "l", " ", "2", "0", "2", "4", " ">>, TRUE),
     nested_cell("bodytext", TRUE, <<>>, <<<<"F", "a", "l", "l">>, <<" ", "2", "0", "2", "4">>>>),
     nested_cell("bodytext", FALSE, <<"A", " ", "&", "a", "m", "p", ";", " ", "B">>, <<<<"\n">>, <<>>>>),
     plain(<<"L", "E", "C", "T">>),
     nested_cell("", TRUE, <<"E", "E", "C", "S">>, <<>>)}

MaxCells == 5

TableRows == SeqsUpTo(CellSamples, MaxCells)

InitHeader ==
    /\ table_row \in TableRows
    /\ header_found = <<>>
    /\ header_course = <<>>
    /\ walk_step = ""
    /\ BesidesHeaderIdle

IsHeaderRow ==
    /\ header_found = <<>>
    /\ header_found' = <<is_header_row(table_row)>>
    /\ UNCHANGED <<table_row, header_course, walk_step>>
    /\ UNCHANGED besidesHeader

\* cells[3] of a row with fewer than four bodytext cells raises IndexError
ParseHeader ==
    /\ header_course = <<>>
    /\ header_course' = IF Len(bodytext_cells(table_row)) >= 4
                         THEN <<parse_course_header(table_row)>>
                         ELSE <<"IndexError">>
    /\ UNCHANGED <<table_row, header_found, walk_step>>
    /\ UNCHANGED besidesHeader

\* parser.py lines 59-65 on a tr that follows the header row of a course: the
\* walk breaks at a header row, continues past a row without direct cells and
\* calls parse_section_row on any other row
WalkRow ==
    /\ walk_step = ""
    /\ walk_step' = IF is_header_row(table_row) THEN "break"
                     ELSE IF table_row = <<>> THEN "continue"
                     ELSE "parse_section_row"
    /\ UNCHANGED <<table_row, header_found, header_course>>
    /\ UNCHANGED besidesHeader

NextHeader == IsHeaderRow \/ ParseHeader \/ WalkRow

SpecHeader == InitHeader /\ [][NextHeader]_vars

(***************************************************************************)
(* Properties of the header rows, stated for SpecHeader                    *)
(***************************************************************************)
\* the indexes of the cells of the header style in a row
StyledIndexes(row) == {i \in 1..Len(row) : row[i].cls = "bodytext"}

\* the index of the k-th cell of the header style
NthStyled(row, k) ==
    CHOOSE i \in StyledIndexes(row) : Cardinality({j \in StyledIndexes(row) : j <= i}) = k

\* the text a reader sees in a cell sample, normalized
NormalizedText(cell) ==
    IF cell.own = <<"E", "E", "C", "S">> THEN <<"E", "E", "C", "S">>
    ELSE IF cell.own = <<"A", " ", "&", "a", "m", "p", ";", " ", "B">> THEN <<"A", " ", "&", " ", "B">>
    ELSE IF cell.own = <<"L", "E", "C", "T">> THEN <<"L", "E", "C", "T">>
    ELSE <<"F", "a", "l", "l", " ", "2", "0", "2", "4">>

ExpectedHeader(row) ==
    [faculty |-> NormalizedText(row[NthStyled(row, 1)]),
     department |-> NormalizedText(row[NthStyled(row, 2)]),
     term |-> NormalizedText(row[NthStyled(row, 3)]),
     courseTitle |-> NormalizedText(row[NthStyled(row, 4)]),
     courseId |-> <<>>,
     credits |-> <<>>,
     languageOfInstruction |-> <<>>,
     sections |-> <<>>]

\* C14: for every header row, parse_course_header returns a record whose
\* faculty, department, term and courseTitle are the normalized texts of the
\* first four cells of the header style, whether the text sits in the cell or
\* in markup nested in it, and whose courseId, credits and
\* languageOfInstruction are empty and sections an empty list.
C14_HeaderFieldsFromFirstFourCells ==
    (header_found = <<TRUE>> /\ header_course # <<>>) =>
        header_course = <<ExpectedHeader(table_row)>>

\* a header row with a cell of another style among its cells and texts in
\* nested markup
C14_Witness ==
    /\ header_found = <<TRUE>>
    /\ header_course # <<>>
    /\ Len(table_row) = 5
    /\ table_row[2] = plain(<<"L", "E", "C", "T">>)
    /\ header_course[1].department = <<"A", " ", "&", " ", "B">>
    /\ header_course[1].courseTitle = <<"F", "a", "l", "l", " ", "2", "0", "2", "4">>
    /\ table_row[5].own = <<>>

\* the row has at least four cells of the header style and the fourth of them
\* carries colspan
FourStyledCells(row) ==
    /\ Cardinality(StyledIndexes(row)) >= 4
    /\ row[NthStyled(row, 4)].colspan

\* C15: is_header_row holds of a row exactly when the row has at least four
\* direct cells of the header style and the fourth of them carries colspan; a
\* row without direct cells is no header row, and the walk continues past it
\* without calling parse_section_row.
C15_HeaderRowIffFourStyledCells ==
    /\ header_found # <<>> => (header_found[1] <=> FourStyledCells(table_row))
    /\ (table_row = <<>> /\ header_found # <<>>) => ~header_found[1]
    /\ (table_row = <<>> /\ walk_step # "") => walk_step = "continue"
    /\ walk_step = "break" <=> (walk_step # "" /\ FourStyledCells(table_row))

\* a row with five cells of the header style whose fourth carries no colspan,
\* found to be no header row and handed to parse_section_row
C15_Witness ==
    /\ header_found = <<FALSE>>
    /\ walk_step = "parse_section_row"
    /\ Cardinality(StyledIndexes(table_row)) = 5
    /\ ~table_row[4].colspan
    /\ table_row[5].colspan

(***************************************************************************)
(* SpecDesc: add_descriptions_to_courses (helpers/description_loader.py)   *)
(* applied to a list of courses and a dict of descriptions.  The dict is   *)
(* the sequence of its <<key, description>> items in insertion order; the  *)
(* empty description stands for None as well, both being falsy.            *)
(***************************************************************************)
KeyIndexes(ds, key) == {i \in 1..Len(ds) : ds[i][1] = key}

\* descriptions.get(key)
descriptions_get(ds, key) ==
    IF KeyIndexes(ds, key) = {} THEN "" ELSE ds[MinOf(KeyIndexes(ds, key))][2]

\* ''.join(c for c in course_id if c.isdigit())
numeric_part(course_id) == SelectSeq(course_id, IsDigit)

PrefixIndexes(ds, course_code_base) ==
    {i \in 1..Len(ds) : StartsAt(ds[i][1], 1, course_code_base)}

\* lines 64-67: the first key that starts with course_code_base decides
first_with_prefix(ds, course_code_base) ==
    IF PrefixIndexes(ds, course_code_base) = {} THEN ""
    ELSE ds[MinOf(PrefixIndexes(ds, course_code_base))][2]

\* lines 53-55
base_match(ds, department, course_id, found) ==
    IF found = "" /\ course_id # <<>> /\ IsAlpha(course_id[Len(course_id)])
    THEN descriptions_get(ds, department \o SubSeq(course_id, 1, Len(course_id) - 1))
    ELSE found

\* lines 58-67
prefix_match(ds, department, course_id, found) ==
    IF found = "" /\ numeric_part(course_id) # <<>>
    THEN first_with_prefix(ds, department \o numeric_part(course_id))
    ELSE found

\* the steps in another order: the prefix search first
find_description_prefix_first(ds, department, course_id) ==
    base_match(ds, department, course_id,
        prefix_match(ds, department, course_id, ""))

\* lines 49-67
find_description(ds, department, course_id) ==
    prefix_match(ds, department, course_id,
        base_match(ds, department, course_id,
            descriptions_get(ds, department \o course_id)))

\* lines 44-79: the description the course c gets
course_description(ds, c) ==
    IF strip(c.department) # <<>> /\ strip(c.courseId) # <<>>
    THEN find_description(ds, strip(c.department), strip(c.courseId))
    ELSE ""

with_description(ds, c) ==
    [department |-> c.department, courseId |-> c.courseId,
     description |-> course_description(ds, c)]

CourseSamples ==
    {[department |-> <<"E", "E", "C", "S">>, courseId |-> <<"4", "8", "0", "0", "Q">>],
     [department |-> <<"E", "E", "C", "S">>, courseId |-> <<"4", "8", "0", "0">>],
     [department |-> <<" ", "E", "E", "C", "S">>, courseId |-> <<" ", "4", "8", "0", "0", "Q", " ">>],
     [department |-> <<"E", "E", "C", "S">>, courseId |-> <<>>],
     [department |-> <<>>, courseId |-> <<"4", "8", "0", "0">>],
     [department |-> <<"E", "E", "C", "S">>, courseId |-> <<"4", "8", "0">>],
     [department |-> <<"E", "E", "C", "S">>, courseId |-> <<"Q">>]}

DescriptionItems ==
    {<<<<"E", "E", "C", "S", "4", "8", "0", "0", "Q">>, "about EECS4800Q">>,
     <<<<"E", "E", "C", "S", "4", "8", "0", "0", "Q">>, "">>,
     <<<<"E", "E", "C", "S", "4", "8", "0", "0">>, "about EECS4800">>,
     <<<<"E", "E", "C", "S", "4", "8", "0", "0", "1">>, "about EECS48001">>,
     <<<<"M", "A", "T", "H", "4", "8", "0", "0">>, "about MATH4800">>,
     <<<<"E", "E", "C", "S", "Q">>, "about EECSQ">>}

MaxCourses == 2

MaxKeys == 3

\* the dicts of up to MaxKeys items: no key twice
Dicts ==
    {ds \in SeqsUpTo(DescriptionItems, MaxKeys) :
        \A i, j \in 1..Len(ds) : ds[i][1] = ds[j][1] => i = j}

InitDesc ==
    /\ desc_courses \in SeqsUpTo(CourseSamples, MaxCourses)
    /\ descriptions \in Dicts
    /\ desc_done = 0
    /\ BesidesDescIdle

\* the call add_descriptions_to_courses(courses, descriptions)
AddDescriptions ==
    /\ desc_done = 0
    /\ desc_courses # <<>>
    /\ desc_courses' = [i \in 1..Len(desc_courses) |->
                            with_description(descriptions, desc_courses[i])]
    /\ desc_done' = Len(desc_courses)
    /\ UNCHANGED descriptions
    /\ UNCHANGED besidesDesc

NextDesc == AddDescriptions

SpecDesc == InitDesc /\ [][NextDesc]_vars

(***************************************************************************)
(* Properties of the description backfill, stated for SpecDesc             *)
(***************************************************************************)
\* the non-empty descriptions the dict holds under the key
Described(key) ==
    {descriptions[i][2] : i \in {j \in 1..Len(descriptions) :
        descriptions[j][1] = key /\ descriptions[j][2] # ""}}

\* the key of the course and the key without the trailing letter of the courseId
ExactKey(c) == strip(c.department) \o strip(c.courseId)

BaseKey(c) ==
    IF IsAlpha(strip(c.courseId)[Len(strip(c.courseId))])
    THEN SubSeq(ExactKey(c), 1, Len(ExactKey(c)) - 1)
    ELSE <<"n", "o", "n", "e">>

\* the descriptions under the keys that start with the department and the digits
\* of the courseId
PrefixDescribed(c) ==
    IF SelectSeq(strip(c.courseId), IsDigit) = <<>> THEN {}
    ELSE {descriptions[i][2] : i \in {j \in 1..Len(descriptions) :
            StartsAt(descriptions[j][1], 1,
                     strip(c.department) \o SelectSeq(strip(c.courseId), IsDigit))}}

StepsInOrder(c) ==
    IF strip(c.department) = <<>> \/ strip(c.courseId) = <<>> THEN c.description = ""
    ELSE /\ Described(ExactKey(c)) # {} => c.description \in Described(ExactKey(c))
         /\ (Described(ExactKey(c)) = {} /\ Described(BaseKey(c)) # {}) =>
                c.description \in Described(BaseKey(c))
         /\ (Described(ExactKey(c)) = {} /\ Described(BaseKey(c)) = {}) =>
                c.description \in PrefixDescribed(c) \cup {""}
         /\ (Described(ExactKey(c)) = {} /\ Described(BaseKey(c)) = {}
                /\ "" \notin PrefixDescribed(c) /\ PrefixDescribed(c) # {}) =>
                c.description # ""

\* C16: a course with a department and a courseId gets the description found
\* under department+courseId; only when there is none, the one found under
\* department+courseId without its trailing letter; only when there is none
\* either, the description of a key that starts with the department and the
\* digits of the courseId; a course for which an earlier step finds a
\* description never gets that of a later step.
C16_BackfillStepsInOrder ==
    desc_done > 0 => \A i \in 1..Len(desc_courses) : StepsInOrder(desc_courses[i])

\* a course found under its exact key while the key without the letter and a
\* key with the same digits, listed before it, hold other descriptions
C16_Witness ==
    /\ desc_done > 0
    /\ desc_courses[1].courseId = <<"4", "8", "0", "0", "Q">>
    /\ desc_courses[1].description = "about EECS4800Q"
    /\ Len(descriptions) = 3
    /\ descriptions[1][1] = <<"E", "E", "C", "S", "4", "8", "0", "0", "1">>
    /\ descriptions[2][1] = <<"E", "E", "C", "S", "4", "8", "0", "0">>

(***************************************************************************)
(* SpecSeed: collect_courses_and_instructors (scripts/generate_seed.py)    *)
(* applied to a list of parsed courses.  course_code_to_index is the       *)
(* sequence of the course codes in the order of their indexes, which are   *)
(* also the keys of course_code_to_uuid; the uuid4 values are left out.    *)
(* instructors_map is given by its keys.                                   *)
(***************************************************************************)
\* f"{department}{course_id}"
course_code_of(c) == c.department \o c.courseId

\* float(credits_str) if credits_str else 0.0, with 0.0 for a text that is no number
credits_of(credits_str) == IF credits_str = <<"3", ".", "0", "0">> THEN "3.0" ELSE "0.0"

new_entry(c) ==
    [code |-> course_code_of(c), name |-> c.courseTitle,
     credits |-> credits_of(c.credits), description |-> c.notes]

\* the names of the instructors of the sections of c, stripped, blank ones left out
instructor_names(c) ==
    UNION {{strip(c.sections[i].instructors[j]) : j \in 1..Len(c.sections[i].instructors)} :
              i \in 1..Len(c.sections)} \ {<<>>}

\* lines 55-89 for the courses k, k+1, ... of cs: codes holds the keys of
\* course_code_to_uuid in the order of their indexes
RECURSIVE collect_from(_, _, _, _, _)
collect_from(cs, k, entries, codes, names) ==
    IF k > Len(cs)
    THEN [courses_list |-> entries, course_code_to_index |-> codes,
          instructors_map |-> names]
    ELSE IF \E i \in 1..Len(codes) : codes[i] = course_code_of(cs[k])
    THEN collect_from(cs, k + 1, entries, codes, names \cup instructor_names(cs[k]))
    ELSE collect_from(cs, k + 1, Append(entries, new_entry(cs[k])),
                      Append(codes, course_code_of(cs[k])),
                      names \cup instructor_names(cs[k]))

collect_courses_and_instructors(cs) == collect_from(cs, 1, <<>>, <<>>, {})

SeedSection(name) == [type |-> <<"L", "E", "C", "T">>, instructors |-> <<name>>]

SeedCourses ==
    {[courseTitle |-> <<"I", "n", "t", "r", "o", "d", "u", "c", "t", "i", "o", "n", " ", "t", "o", " ", "C", "S">>, department |-> d, courseId |-> n,
      credits |-> cr, notes |-> <<>>, faculty |-> <<"L", "E">>, term |-> t, sections |-> s] :
        d \in {<<"E", "E", "C", "S">>, <<"E", "E", "C", "S", "1">>}, n \in {<<"1", "0", "0", "0">>, <<"0", "0", "0">>},
        cr \in {<<"3", ".", "0", "0">>, <<>>}, t \in {<<"F">>, <<"W">>},
        s \in {<<>>, <<SeedSection(<<" ", "A", "d", "a", " ", "L", "o", "v", "e", "l", "a", "c", "e", " ">>)>>, <<SeedSection(<<" ">>)>>}}

MaxSeedCourses == 2

InitSeed ==
    /\ seed_courses \in SeqsUpTo(SeedCourses, MaxSeedCourses)
    /\ courses_list = <<>>
    /\ course_code_to_index = <<>>
    /\ instructors_map = {}
    /\ seed_done = FALSE
    /\ BesidesSeedIdle

CollectCourses ==
    /\ ~seed_done
    /\ courses_list' = collect_courses_and_instructors(seed_courses).courses_list
    /\ course_code_to_index' =
            collect_courses_and_instructors(seed_courses).course_code_to_index
    /\ instructors_map' = collect_courses_and_instructors(seed_courses).instructors_map
    /\ seed_done' = TRUE
    /\ UNCHANGED seed_courses
    /\ UNCHANGED besidesSeed

NextSeed == CollectCourses

SpecSeed == InitSeed /\ [][NextSeed]_vars

(***************************************************************************)
(* Properties of collect_courses_and_instructors, stated for SpecSeed      *)
(***************************************************************************)
\* the distinct pairs of course code and term among the input courses
CodeTermPairs ==
    {<<seed_courses[i].department \o seed_courses[i].courseId, seed_courses[i].term>> :
        i \in 1..Len(seed_courses)}

\* C17: collect_courses_and_instructors creates one course entry per distinct
\* pair of course code (department+courseId) and term: two input courses with
\* the same code and term give one entry, two with the same code and different
\* terms give two.
C17_OneEntryPerCodeAndTerm ==
    seed_done => Len(courses_list) = Cardinality(CodeTermPairs)

(***************************************************************************)
(* SpecRun: main of scrapers/scrape.py running the loaded scrapers.        *)
(* A loaded scraper is [main, data]: what its main() does (it returns or   *)
(* raises an Exception) and what the data file it leaves holds.  Its name  *)
(* is its place in the sorted list of modules.  The description and the    *)
(* timestamp of a result are left out.                                     *)
(***************************************************************************)
ScraperKinds ==
    {[main |-> m, data |-> d] :
        m \in {"returns", "raises"}, d \in {"no file", "two courses", "not json"}}

MaxScrapers == 3

\* lines 89-91 left out: the result keeps what line 61 would have set
run_scraper_unrecorded(name, s) ==
    [name |-> name, success |-> TRUE, error |-> <<>>,
     courses_count |-> IF s.data = "two courses" THEN 2 ELSE 0]

\* lines 50-94: the result of run_scraper for the scraper s called name
run_scraper(name, s) ==
    IF s.main = "raises"
    THEN [name |-> name, success |-> FALSE, error |-> <<"error in main">>,
          courses_count |-> 0]
    ELSE IF s.data = "not json"
    THEN [name |-> name, success |-> FALSE, error |-> <<"error in json.load">>,
          courses_count |-> 0]
    ELSE [name |-> name, success |-> TRUE, error |-> <<>>,
          courses_count |-> IF s.data = "two courses" THEN 2 ELSE 0]

InitRun ==
    /\ scrapers \in SeqsUpTo(ScraperKinds, MaxScrapers)
    /\ results = <<>>
    /\ invocations = <<>>
    /\ run_pc = "load"
    /\ exit_code = <<>>
    /\ BesidesRunIdle

\* lines 104 and 37-39: no scraper found ends the run
LoadScrapers ==
    /\ run_pc = "load"
    /\ IF scrapers = <<>>
       THEN run_pc' = "exited" /\ exit_code' = <<1>>
       ELSE run_pc' = "run" /\ UNCHANGED exit_code
    /\ UNCHANGED <<scrapers, results, invocations>>
    /\ UNCHANGED besidesRun

\* lines 107-109: one turn of the loop
RunScraper ==
    /\ run_pc = "run"
    /\ Len(results) < Len(scrapers)
    /\ invocations' = Append(invocations, Len(results) + 1)
    /\ results' = Append(results, run_scraper(Len(results) + 1, scrapers[Len(results) + 1]))
    /\ UNCHANGED <<scrapers, run_pc, exit_code>>
    /\ UNCHANGED besidesRun

\* lines 116-141
Summarize ==
    /\ run_pc = "run"
    /\ Len(results) = Len(scrapers)
    /\ run_pc' = "exited"
    /\ exit_code' = IF \E i \in 1..Len(results) : ~results[i].success THEN <<1>> ELSE <<0>>
    /\ UNCHANGED <<scrapers, results, invocations>>
    /\ UNCHANGED besidesRun

NextRun == LoadScrapers \/ RunScraper \/ Summarize

SpecRun == InitRun /\ [][NextRun]_vars

(***************************************************************************)
(* Properties of the runner, stated for SpecRun                            *)
(***************************************************************************)
\* C18: the runner calls every loaded scraper once, in the order of the list;
\* a scraper whose main raises gets a result with success false and the text
\* of the error, and the scrapers after it are run all the same.
C18_EveryScraperRunOnce ==
    /\ invocations = [i \in 1..Len(invocations) |-> i]
    /\ Len(invocations) <= Len(scrapers)
    /\ Len(results) = Len(invocations)
    /\ run_pc = "exited" => Len(invocations) = Len(scrapers)
    /\ \A i \in 1..Len(results) :
          /\ results[i].name = i
          /\ scrapers[i].main = "raises" =>
                (~results[i].success /\ results[i].error = <<"error in main">>)

\* the run has ended: the first scraper raised and a later one succeeded
C18_Witness ==
    /\ run_pc = "exited"
    /\ Len(scrapers) = 3
    /\ scrapers[1].main = "raises"
    /\ ~results[1].success
    /\ results[3].success
    /\ results[3].courses_count = 2
    /\ exit_code = <<1>>

(***************************************************************************)
(* SpecMain: main of a per-faculty scraper (scrapers/glendon.py,           *)
(* scrapers/education.py).  outcomes says what the environment does: the   *)
(* reading of the page source succeeds or raises, the parser returns a     *)
(* result with some courses or raises, the writing of the data file        *)
(* succeeds or raises.                                                     *)
(***************************************************************************)
MaxResultCourses == 2

Outcomes ==
    [read : {"ok", "FileNotFoundError", "PermissionError"},
     parse : {"returns", "raises"},
     courses : 0..MaxResultCourses,
     write : {"ok", "raises"}]

InitMain ==
    /\ scraper \in {"glendon", "education"}
    /\ outcomes \in Outcomes
    /\ main_pc = "read"
    /\ printed = <<>>
    /\ parser_calls = 0
    /\ files_written = <<>>
    /\ BesidesMainIdle

\* the reading without the return of line 18: the error is printed and main
\* goes on
ReadHtml_going_on ==
    /\ main_pc = "read"
    /\ main_pc' = "parse"
    /\ printed' = IF outcomes.read = "ok" THEN printed
                   ELSE Append(printed, "Error reading HTML")
    /\ UNCHANGED <<scraper, outcomes, parser_calls, files_written>>
    /\ UNCHANGED besidesMain

\* glendon.py lines 14-18, education.py lines 15-19
ReadHtml ==
    /\ main_pc = "read"
    /\ IF outcomes.read = "ok"
       THEN main_pc' = "parse" /\ UNCHANGED printed
       ELSE /\ main_pc' = "returned"
            /\ printed' = Append(printed, "Error reading HTML")
    /\ UNCHANGED <<scraper, outcomes, parser_calls, files_written>>
    /\ UNCHANGED besidesMain

\* glendon.py line 21, education.py lines 22-26
ParseHtml ==
    /\ main_pc = "parse"
    /\ parser_calls' = parser_calls + 1
    /\ IF outcomes.parse = "returns"
       THEN main_pc' = "write" /\ UNCHANGED printed
       ELSE /\ main_pc' = "returned"
            /\ printed' = Append(printed, "Error parsing HTML")
    /\ UNCHANGED <<scraper, outcomes, files_written>>
    /\ UNCHANGED besidesMain

\* glendon.py lines 22-33, education.py lines 28-39
WriteData ==
    /\ main_pc = "write"
    /\ IF outcomes.write = "ok"
       THEN /\ files_written' = Append(files_written, scraper)
            /\ printed' = printed \o <<"Saved", "Courses">>
                              \o [i \in 1..outcomes.courses |-> "course"]
       ELSE /\ printed' = Append(printed, "Error parsing HTML")
            /\ UNCHANGED files_written
    /\ main_pc' = "returned"
    /\ UNCHANGED <<scraper, outcomes, parser_calls>>
    /\ UNCHANGED besidesMain

NextMain == ReadHtml \/ ParseHtml \/ WriteData

SpecMain == InitMain /\ [][NextMain]_vars

(***************************************************************************)
(* Properties of the per-faculty entry points, stated for SpecMain         *)
(***************************************************************************)
\* C19: when the reading of the page source fails, main prints an error and
\* returns; it never calls the parser and never writes a data file.
C19_ReadFailureStopsMain ==
    outcomes.read # "ok" =>
        /\ parser_calls = 0
        /\ files_written = <<>>
        /\ main_pc \in {"read", "returned"}
        /\ main_pc = "returned" => printed = <<"Error reading HTML">>

\* main has returned after a failed reading although the parser and the
\* writing would have succeeded
C19_Witness ==
    /\ main_pc = "returned"
    /\ outcomes.read = "FileNotFoundError"
    /\ outcomes.parse = "returns"
    /\ outcomes.write = "ok"
    /\ printed = <<"Error reading HTML">>
    /\ parser_calls = 0

(***************************************************************************)
(* SpecFill: the backfill of courseId, credits and languageOfInstruction   *)
(* on a course by two activity rows, processed in both orders, and by the  *)
(* scan of one activity row run twice.                                     *)
(***************************************************************************)
\* activity rows: every sample of cells before a cell that holds an activity type
FillRows == {p \o <<t>> : p \in RowPrefixes, t \in {plain(<<"L", "E", "C">>), plain(<<" ", "L", "a", "b", " ">>)}}

\* the course of a header row, alone or after one activity row
StartCourses ==
    {parse_course_header(HeaderRowOne.row)}
        \cup {parse_section_row(r, parse_course_header(HeaderRowOne.row)).course : r \in FillRows}

InitFill ==
    /\ fill_start \in StartCourses
    /\ fill_rows \in FillRows \X FillRows
    /\ fill_ab = <<>>
    /\ fill_ba = <<>>
    /\ fill_once = <<>>
    /\ fill_twice = <<>>
    /\ fill_pc = "ready"
    /\ BesidesFillIdle

\* the course after parse_section_row on first and then on second
after_rows(c, first, second) ==
    parse_section_row(second, parse_section_row(first, c).course).course

ProcessBothOrders ==
    /\ fill_pc = "ready"
    /\ fill_ab' = <<after_rows(fill_start, fill_rows[1], fill_rows[2])>>
    /\ fill_ba' = <<after_rows(fill_start, fill_rows[2], fill_rows[1])>>
    /\ fill_pc' = "ordered"
    /\ UNCHANGED <<fill_start, fill_rows, fill_once, fill_twice>>
    /\ UNCHANGED besidesFill

\* fill_course_summary_and_loi on the row, from the course c
scan(row, c) == fill_course_summary_and_loi(row, find_section_type_index(row), c)

ScanTwice ==
    /\ fill_pc = "ready"
    /\ fill_once' = <<scan(fill_rows[1], fill_start)>>
    /\ fill_twice' = <<scan(fill_rows[1], scan(fill_rows[1], fill_start).course)>>
    /\ fill_pc' = "repeated"
    /\ UNCHANGED <<fill_start, fill_rows, fill_ab, fill_ba>>
    /\ UNCHANGED besidesFill

NextFill == ProcessBothOrders \/ ScanTwice

SpecFill == InitFill /\ [][NextFill]_vars

(***************************************************************************)
(* Properties of the backfill, stated for SpecFill                         *)
(***************************************************************************)
\* what the two rows carry before their activity-type cell
CarriedFirst == own_summary(fill_rows[1])

CarriedSecond == own_summary(fill_rows[2])

\* C23 as stated: two activity rows processed in either order leave the same
\* courseId, credits and languageOfInstruction on the course.
C23_OrderIndependent ==
    fill_pc = "ordered" =>
        /\ fill_ab[1].courseId = fill_ba[1].courseId
        /\ fill_ab[1].credits = fill_ba[1].credits
        /\ fill_ab[1].languageOfInstruction = fill_ba[1].languageOfInstruction

\* C23 amended: two activity rows processed in either order leave the same
\* value in each of courseId, credits and languageOfInstruction, except in a
\* field that was empty before the two rows and for which the rows carry
\* different values: there the row processed first gives the value.
C23_OrderIndependentUnlessRowsDisagree ==
    fill_pc = "ordered" =>
        /\ IF /\ fill_start.courseId = <<>>
              /\ CarriedFirst.courseId # <<>>
              /\ CarriedSecond.courseId \notin {<<>>, CarriedFirst.courseId}
           THEN /\ fill_ab[1].courseId = CarriedFirst.courseId
                /\ fill_ba[1].courseId = CarriedSecond.courseId
           ELSE fill_ab[1].courseId = fill_ba[1].courseId
        /\ IF /\ fill_start.credits = <<>>
              /\ CarriedFirst.credits # <<>>
              /\ CarriedSecond.credits \notin {<<>>, CarriedFirst.credits}
           THEN /\ fill_ab[1].credits = CarriedFirst.credits
                /\ fill_ba[1].credits = CarriedSecond.credits
           ELSE fill_ab[1].credits = fill_ba[1].credits
        /\ IF /\ fill_start.languageOfInstruction = <<>>
              /\ CarriedFirst.languageOfInstruction # <<>>
              /\ CarriedSecond.languageOfInstruction
                    \notin {<<>>, CarriedFirst.languageOfInstruction}
           THEN /\ fill_ab[1].languageOfInstruction = CarriedFirst.languageOfInstruction
                /\ fill_ba[1].languageOfInstruction = CarriedSecond.languageOfInstruction
           ELSE fill_ab[1].languageOfInstruction = fill_ba[1].languageOfInstruction

\* the course had no language and a courseId; the rows carry different
\* courseIds, and one of them alone carries a language: both orders agree
C23_Witness ==
    /\ fill_pc = "ordered"
    /\ fill_start.courseId # <<>>
    /\ fill_start.languageOfInstruction = <<>>
    /\ CarriedFirst.courseId # <<>>
    /\ CarriedSecond.courseId \notin {<<>>, CarriedFirst.courseId}
    /\ CarriedFirst.languageOfInstruction = <<>>
    /\ CarriedSecond.languageOfInstruction # <<>>
    /\ fill_ab = fill_ba
    /\ fill_ab[1].languageOfInstruction = CarriedSecond.languageOfInstruction

\* C24: the scan of one activity row run a second time leaves courseId,
\* credits and languageOfInstruction as they were after the first run and
\* returns the same section letter.
C24_ScanIdempotent ==
    fill_pc = "repeated" =>
        /\ fill_twice[1].course.courseId = fill_once[1].course.courseId
        /\ fill_twice[1].course.credits = fill_once[1].course.credits
        /\ fill_twice[1].course.languageOfInstruction =
                fill_once[1].course.languageOfInstruction
        /\ fill_twice[1].letter = fill_once[1].letter

\* the first run set the three fields of a course that had none and returned
\* a section letter
C24_Witness ==
    /\ fill_pc = "repeated"
    /\ fill_start.courseId = <<>>
    /\ fill_start.languageOfInstruction = <<>>
    /\ fill_once[1].course.courseId # <<>>
    /\ fill_once[1].course.credits # <<>>
    /\ fill_once[1].course.languageOfInstruction # <<>>
    /\ fill_once[1].letter # <<>>
    /\ fill_twice = fill_once

(***************************************************************************)
(* The type of a returned section, stated for SpecRow                      *)
(***************************************************************************)
\* some cell of the row of the last call holds an activity type
SomeCellClassifies ==
    \E i \in 1..Len(rrow) : get_section_type(cell_text(rrow[i])) # <<>>

\* C27: after a call of parse_section_row, None was returned exactly when no
\* cell of the row holds an activity type, and a returned section has a type
\* that is one of the canonical codes, never the empty one.
C27_SectionIffTypeCell ==
    rcalls > 0 =>
        /\ (rret = <<>>) <=> ~SomeCellClassifies
        /\ rret # <<>> => rret[1].type \in official_types \cup OtherCodes

\* a row made of an activity-type cell alone gives a section: its type is its
\* only content
C27_Witness ==
    /\ rcalls > 0
    /\ Len(rrow) = 1
    /\ SomeCellClassifies
    /\ rret # <<>>
    /\ rret[1].type \in official_types
    /\ rret[1].meetNumber = <<>>
    /\ rret[1].catalogNumber = <<>>

(***************************************************************************)
(* SpecMerge: generate_seed_sql (scripts/generate_seed.py) merging the     *)
(* courses of its input files, one file at a time.  A file is the list of  *)
(* courses under its "courses" key.  The instructors, the instructor links *)
(* and the uuid4 values are left out.  course_files and origins are        *)
(* history variables: the number of the file that created each entry of    *)
(* all_courses_list, and the file and the course code each entry of the    *)
(* merged labs, tutorials and sections lists came from.                    *)
(***************************************************************************)
\* course_code_to_index.get(course_code): codes holds the codes in the order
\* of their indexes
index_of_code(codes, code) == (CHOOSE i \in 1..Len(codes) : codes[i] = code) - 1

\* format_schedule: 'NULL' for an empty schedule, the schedule as text otherwise
format_schedule(schedule) == IF schedule = <<>> THEN "NULL" ELSE "JSON"

\* process_single_section: the entry the section gives and the list it goes to
process_single_section(section, course_idx, course_code) ==
    IF Upper(section.type) = <<"L", "A", "B">>
    THEN [kind |-> "lab", code |-> course_code,
          entry |-> [course_idx |-> course_idx, catalog_number |-> section.catalogNumber,
                     times |-> format_schedule(section.schedule)]]
    ELSE IF Upper(section.type) \in {<<"T", "U", "T">>, <<"T", "U", "T", "R">>}
    THEN [kind |-> "tutorial", code |-> course_code,
          entry |-> [course_idx |-> course_idx, catalog_number |-> section.catalogNumber,
                     times |-> format_schedule(section.schedule)]]
    ELSE IF Upper(section.type) \in {<<"L", "E", "C", "T">>, <<"O", "N", "L", "N">>}
    THEN [kind |-> "section", code |-> course_code,
          entry |-> [course_idx |-> course_idx, lab_id |-> "None",
                     letter |-> section.meetNumber]]
    ELSE [kind |-> "none", code |-> course_code, entry |-> <<>>]

\* lines 101-115 for one course of the file
process_course(c, codes) ==
    IF \A i \in 1..Len(codes) : codes[i] # course_code_of(c) THEN <<>>
    ELSE [i \in 1..Len(c.sections) |->
             process_single_section(c.sections[i], index_of_code(codes, course_code_of(c)),
                                    course_code_of(c))]

\* process_sections: what the sections of the courses give, in order; the
\* three lists are the entries of each kind
process_sections(cs, codes) == Concat([k \in 1..Len(cs) |-> process_course(cs[k], codes)])

\* lines 331-341 without the offset
adjusted_without_offset(entry, offset) == entry

\* lines 331-341: entry['course_idx'] = entry['course_idx'] + offset
adjusted(entry, offset) == [entry EXCEPT !.course_idx = @ + offset]

MergeSection(type, catalog) ==
    [type |-> type, catalogNumber |-> catalog, meetNumber |-> <<"0", "1">>, schedule |-> <<>>,
     instructors |-> <<>>]

MergeCourse(n, s) ==
    [courseTitle |-> <<"I", "n", "t", "r", "o">>, department |-> <<"E", "E", "C", "S">>, courseId |-> n, credits |-> <<"3", ".", "0", "0">>,
     notes |-> <<>>, faculty |-> <<"L", "E">>, term |-> <<"F">>, sections |-> s]

MergeCourses ==
    {MergeCourse(<<"1", "0", "0", "0">>, <<MergeSection(<<"L", "a", "b">>, <<"L", "0", "1">>)>>),
     MergeCourse(<<"2", "0", "0", "0">>, <<MergeSection(<<"L", "E", "C", "T">>, <<"A", "0", "1">>), MergeSection(<<"T", "U", "T", "R">>, <<"T", "0", "1">>), MergeSection(<<"S", "E", "M", "R">>, <<"S", "0", "1">>)>>),
     MergeCourse(<<"2", "0", "0", "0">>, <<MergeSection(<<"L", "A", "B">>, <<"L", "0", "2">>), MergeSection(<<"T", "U", "T">>, <<"T", "0", "2">>)>>)}

MaxFileCourses == 2

MaxFiles == 2

InitMerge ==
    /\ json_files \in SeqsUpTo(SeqsUpTo(MergeCourses, MaxFileCourses), MaxFiles)
    /\ files_done = 0
    /\ all_courses_list = <<>>
    /\ all_course_code_to_index = <<>>
    /\ all_labs_list = <<>>
    /\ all_tutorials_list = <<>>
    /\ all_sections_list = <<>>
    /\ course_files = <<>>
    /\ origins = [labs |-> <<>>, tutorials |-> <<>>, sections |-> <<>>]
    /\ BesidesMergeIdle

\* the entries of one kind among what process_sections gave, with the offset
entries_of(processed, kind, offset) ==
    [i \in 1..Len(SelectSeq(processed, LAMBDA p : p.kind = kind)) |->
        adjusted(SelectSeq(processed, LAMBDA p : p.kind = kind)[i].entry, offset)]

origins_of(processed, kind, file) ==
    [i \in 1..Len(SelectSeq(processed, LAMBDA p : p.kind = kind)) |->
        [file |-> file, code |-> SelectSeq(processed, LAMBDA p : p.kind = kind)[i].code]]

\* lines 319-341: collected is what collect_courses_and_instructors returned
\* for the file, processed what process_sections returned
MergeCollected(file, collected, processed, offset) ==
    /\ all_courses_list' = all_courses_list \o collected.courses_list
    /\ course_files' = course_files \o [i \in 1..Len(collected.courses_list) |-> file]
    /\ all_course_code_to_index' =
            [code \in DOMAIN all_course_code_to_index
                        \cup {collected.course_code_to_index[i] :
                                 i \in 1..Len(collected.course_code_to_index)} |->
                IF \E i \in 1..Len(collected.course_code_to_index) :
                       collected.course_code_to_index[i] = code
                THEN index_of_code(collected.course_code_to_index, code) + offset
                ELSE all_course_code_to_index[code]]
    /\ all_labs_list' = all_labs_list \o entries_of(processed, "lab", offset)
    /\ all_tutorials_list' = all_tutorials_list \o entries_of(processed, "tutorial", offset)
    /\ all_sections_list' = all_sections_list \o entries_of(processed, "section", offset)
    /\ origins' = [labs |-> origins.labs \o origins_of(processed, "lab", file),
                   tutorials |-> origins.tutorials \o origins_of(processed, "tutorial", file),
                   sections |-> origins.sections \o origins_of(processed, "section", file)]

\* lines 309-317: the next file is loaded, collected and processed
MergeCourseList(file, cs) ==
    MergeCollected(file, collect_courses_and_instructors(cs),
                   process_sections(cs, collect_courses_and_instructors(cs).course_code_to_index),
                   Len(all_courses_list))

\* one turn of the loop of line 306
MergeFile ==
    /\ files_done < Len(json_files)
    /\ MergeCourseList(files_done + 1, json_files[files_done + 1])
    /\ files_done' = files_done + 1
    /\ UNCHANGED json_files
    /\ UNCHANGED besidesMerge

NextMerge == MergeFile

SpecMerge == InitMerge /\ [][NextMerge]_vars

(***************************************************************************)
(* Properties of generate_seed_sql, stated for SpecMerge                   *)
(***************************************************************************)
\* the entry at position k of a merged list points to the course entry that
\* the file of its section created for the course code of its section
PointsToOwnCourse(entries, from, k) ==
    /\ entries[k].course_idx \in 0..(Len(all_courses_list) - 1)
    /\ all_courses_list[entries[k].course_idx + 1].code = from[k].code
    /\ course_files[entries[k].course_idx + 1] = from[k].file

\* C30: after any number of files has been merged, the course_idx of every
\* entry of the merged labs, tutorials and sections lists is an index into
\* the merged courses list, and the course entry there is the one created in
\* the entry's own file for the course code of its section.
C30_CourseIdxPointsToOwnCourse ==
    /\ \A k \in 1..Len(all_labs_list) : PointsToOwnCourse(all_labs_list, origins.labs, k)
    /\ \A k \in 1..Len(all_tutorials_list) :
           PointsToOwnCourse(all_tutorials_list, origins.tutorials, k)
    /\ \A k \in 1..Len(all_sections_list) :
           PointsToOwnCourse(all_sections_list, origins.sections, k)

\* two files hold the same course code; the lab of the second file points to
\* the entry the second file created, not to that of the first
C30_Witness ==
    /\ files_done = 2
    /\ Len(all_courses_list) >= 2
    /\ all_courses_list[1].code = all_courses_list[Len(all_courses_list)].code
    /\ \E k \in 1..Len(all_labs_list) :
           /\ origins.labs[k].file = 2
           /\ all_labs_list[k].course_idx = Len(all_courses_list) - 1
           /\ origins.labs[k].code = all_courses_list[1].code

====
